---- MODULE Spec2Model ----
(***************************************************************************)
(* Model of AIPartnerUpFlowClient.executeTask (src/lib/api/apflow.ts):     *)
(* the tasks.execute call, its streaming (fetch + SSE) path with the       *)
(* processStream loop, its JSON fallback and its non-streaming path.       *)
(*                                                                         *)
(* Text is modelled at the level of single bytes and characters.  A byte   *)
(* or a character is a string token: an ASCII byte is the character        *)
(* itself, the two bytes of the UTF-8 encoding of U+00E9 are "c3" and      *)
(* "a9", and the decoded character is "U+00E9".  JSON texts are            *)
(* abbreviated: the three or four characters between the braces stand for  *)
(* the members listed beside each text.  JavaScript values are records     *)
(* [k |-> kind, v |-> value].                                              *)
(***************************************************************************)
EXTENDS Integers, Sequences, FiniteSets, TLC

VARIABLES
    pc,              \* where the call is: see Init
    requestId,       \* this.requestId
    sent,            \* the JSON-RPC requests handed to the transport, in order
    useStreaming,    \* executeTask's useStreaming argument
    hasOnEvent,      \* whether an onEvent callback was passed
    sinkThrows,      \* the event types on which the caller's onEvent throws
    response,        \* what the transport answered to tasks.execute
    body,            \* the bytes of the SSE response body
    bodyLines,       \* the lines the server wrote into body, for reference
    pos,             \* how many bytes of body the reader has handed out
    pending,         \* TextDecoder's incomplete multi-byte sequence
    buffer,          \* processStream's buffer
    initialResponse, \* processStream's initialResponse
    events,          \* the arguments of the onEvent calls, in order
    decoded,         \* the arguments of the JSON.parse calls, in order
    logged,          \* number of console.error calls of the frame loop
    streamResult,    \* what processStream's own promise resolved with
    ack,             \* the promise executeTask returned
    eventsAtAck,     \* Len(events) when the promise settled
    streams,         \* the streams of two executeTask calls open together
    store,           \* localStorage: the credential store
    calls,           \* the calls made on the client, each with where it is
    wire,            \* the requests handed to axios or fetch, in order
    facade,          \* one façade call: its arguments, request, answer, outcome
    detectInput,     \* the argument of a provider detection
    detectOutput,    \* what the detection returned
    cache,           \* the task detail view's cached task (query ['task', id])
    handled,         \* the streamed events the view's sink has handled
    poll,            \* one pollTaskStatus call: its locals, its requests, its log
    login            \* the auto-login hook and the query gated on it

\* The variables of one executeTask call.
executeVars == <<pc, requestId, sent, useStreaming, hasOnEvent, sinkThrows,
                 response, body, bodyLines, pos, pending, buffer, initialResponse, events, decoded,
                 logged, streamResult, ack, eventsAtAck>>

\* The variables of the other parts of the client and of its callers.
otherVars == <<streams, store, calls, wire, facade, detectInput, detectOutput,
               cache, handled, poll, login>>

\* The same, by the part of the program they belong to.
clientVars == <<store, calls, wire>>

detectVars == <<detectInput, detectOutput>>

viewVars == <<cache, handled>>

\* The variables of one executeTask call but the request counter.
callVars == <<pc, sent, useStreaming, hasOnEvent, sinkThrows,
              response, body, bodyLines, pos, pending, buffer, initialResponse, events, decoded,
              logged, streamResult, ack, eventsAtAck>>

vars == <<executeVars, otherVars>>

streamVars == <<body, bodyLines, pos, pending, buffer, initialResponse,
                decoded, logged, streamResult>>

(***************************************************************************)
(* Bounds of the model.                                                    *)
(***************************************************************************)
MaxLines == 3

(***************************************************************************)
(* JavaScript values.                                                      *)
(***************************************************************************)
Undefined == [k |-> "undefined"]

Null == [k |-> "null"]

Str(s) == [k |-> "string", v |-> s]

Bool(b) == [k |-> "boolean", v |-> b]

Num(n) == [k |-> "number", v |-> n]

Obj(r) == [k |-> "object", v |-> r]

\* ToBoolean, as applied by `&&`, `||` and `if`.
Truthy(x) ==
    CASE x.k = "undefined" -> FALSE
      [] x.k = "null" -> FALSE
      [] x.k = "boolean" -> x.v
      [] x.k = "string" -> x.v # ""
      [] x.k = "number" -> x.v # 0
      [] OTHER -> TRUE

\* a || b
Or(a, b) == IF Truthy(a) THEN a ELSE b

TaskId == "t1"

\* The literal object of apflow.ts:683-689, 699-705, 720-726.
Placeholder(taskId) ==
    Obj([success |-> TRUE, root_task_id |-> taskId, task_id |-> taskId,
         status |-> "started", message |-> "Task execution started"])

\* A TaskExecutionResponse as the server sends it.
ServerResult ==
    Obj([success |-> TRUE, root_task_id |-> TaskId, task_id |-> TaskId,
         status |-> "in_progress", message |-> "Task queued"])

\* A parsed frame: an object with the members the loop reads.
Frame(jsonrpc, result, type, final, message) ==
    [jsonrpc |-> jsonrpc, result |-> result, type |-> type, final |-> final,
     message |-> message, error |-> Undefined]

(***************************************************************************)
(* The lines a server can write.                                           *)
(***************************************************************************)
LF == "\n"

DataPrefix == <<"d", "a", "t", "a", ":", " ">>

\* {"jsonrpc":"2.0","result":{...}}
TxtAck == <<"{", "r", "}">>

\* {"jsonrpc":"2.0","result":null,"type":"progress"}
TxtAckNull == <<"{", "n", "}">>

\* {"type":"progress","message":"é"}, the e-acute sent as UTF-8
TxtProgress == <<"{", "c3", "a9", "}">>

\* {"type":"done","final":true}
TxtDone == <<"{", "f", "}">>

\* {"type":"stream_end"}
TxtStreamEnd == <<"{", "s", "}">>

\* {"foo":1}
TxtOther == <<"{", "x", "}">>

\* {"type":""}
TxtEmptyType == <<"{", "t", "}">>

\* {"type":"progress"    (cut short: not JSON)
TxtMalformed == <<"{", "p">>

PayloadBytes ==
    {TxtAck, TxtAckNull, TxtProgress, TxtDone, TxtStreamEnd, TxtOther,
     TxtEmptyType, TxtMalformed}

\* The lines of a body: `data: <payload>` lines and the blank separator.
LineBytes == {DataPrefix \o p : p \in PayloadBytes} \cup {<<>>}

RECURSIVE Join(_, _)
\* The lines written one after the other, each but possibly the last
\* followed by a line feed.
Join(ls, terminated) ==
    IF ls = <<>> THEN <<>>
    ELSE IF Len(ls) = 1 /\ ~terminated THEN Head(ls)
    ELSE Head(ls) \o <<LF>> \o Join(Tail(ls), terminated)

(***************************************************************************)
(* TextDecoder.decode(value, {stream: true}).                              *)
(***************************************************************************)
RECURSIVE DecodeFrom(_, _)
DecodeFrom(bytes, i) ==
    IF i > Len(bytes) THEN [text |-> <<>>, pending |-> <<>>]
    ELSE IF bytes[i] = "c3"
    THEN IF i = Len(bytes) THEN [text |-> <<>>, pending |-> <<"c3">>]
         ELSE IF bytes[i + 1] = "a9"
         THEN LET r == DecodeFrom(bytes, i + 2)
              IN  [text |-> <<"U+00E9">> \o r.text, pending |-> r.pending]
         ELSE LET r == DecodeFrom(bytes, i + 1)
              IN  [text |-> <<"U+FFFD">> \o r.text, pending |-> r.pending]
    ELSE IF bytes[i] = "a9"
    THEN LET r == DecodeFrom(bytes, i + 1)
         IN  [text |-> <<"U+FFFD">> \o r.text, pending |-> r.pending]
    ELSE LET r == DecodeFrom(bytes, i + 1)
         IN  [text |-> <<bytes[i]>> \o r.text, pending |-> r.pending]

\* The characters a chunk completes, and the bytes kept for the next call.
Decode(kept, chunk) == DecodeFrom(kept \o chunk, 1)

(***************************************************************************)
(* String operations of the frame loop.                                    *)
(***************************************************************************)
RECURSIVE SplitFrom(_, _, _)
SplitFrom(s, i, cur) ==
    IF i > Len(s) THEN <<cur>>
    ELSE IF s[i] = LF THEN <<cur>> \o SplitFrom(s, i + 1, <<>>)
    ELSE SplitFrom(s, i + 1, Append(cur, s[i]))

\* s.split('\n'): at least one piece, the last one what follows the last LF.
Split(s) == SplitFrom(s, 1, <<>>)

\* line.startsWith(prefix)
StartsWith(line, prefix) ==
    /\ Len(line) >= Len(prefix)
    /\ SubSeq(line, 1, Len(prefix)) = prefix

\* line.slice(6)
Slice6(line) == SubSeq(line, 7, Len(line))

\* JSON.parse(text): the value, or a SyntaxError.
JSONParse(text) ==
    CASE text = <<"{", "r", "}">> ->
           [ok |-> TRUE,
            value |-> Frame(Str("2.0"), ServerResult, Undefined, Undefined,
                            Undefined)]
      [] text = <<"{", "n", "}">> ->
           [ok |-> TRUE,
            value |-> Frame(Str("2.0"), Null, Str("progress"), Undefined,
                            Undefined)]
      [] text = <<"{", "U+00E9", "}">> ->
           [ok |-> TRUE,
            value |-> Frame(Undefined, Undefined, Str("progress"), Undefined,
                            Str("U+00E9"))]
      [] text = <<"{", "f", "}">> ->
           [ok |-> TRUE,
            value |-> Frame(Undefined, Undefined, Str("done"), Bool(TRUE),
                            Undefined)]
      [] text = <<"{", "s", "}">> ->
           [ok |-> TRUE,
            value |-> Frame(Undefined, Undefined, Str("stream_end"),
                            Undefined, Undefined)]
      [] text = <<"{", "x", "}">> ->
           [ok |-> TRUE,
            value |-> Frame(Undefined, Undefined, Undefined, Undefined,
                            Undefined)]
      [] text = <<"{", "t", "}">> ->
           [ok |-> TRUE,
            value |-> Frame(Undefined, Undefined, Str(""), Undefined,
                            Undefined)]
      [] OTHER -> [ok |-> FALSE]

(***************************************************************************)
(* The frame loop of processStream (apflow.ts:668-696).                    *)
(***************************************************************************)
\* Whether the caller's onEvent throws when handed this event.
SinkThrowsOn(event, throws) == event.type.k = "string" /\ event.type.v \in throws

\* Mutant: the presence of the result member decides, not its truthiness.
IsInitialResponseByField(parsed) ==
    parsed.jsonrpc = Str("2.0") /\ parsed.result # Undefined

\* parsed.jsonrpc === '2.0' && parsed.result
IsInitialResponse(parsed) ==
    parsed.jsonrpc = Str("2.0") /\ Truthy(parsed.result)

\* parsed.type, as a condition
IsEvent(parsed) == Truthy(parsed.type)

\* parsed.final || parsed.type === 'stream_end'
IsTerminal(parsed) == Truthy(parsed.final) \/ parsed.type = Str("stream_end")

\* The state of the loop: what the body of one iteration reads and writes.
\* returned: the `return` of line 683 was executed.
LoopState(ir, evs, dec, lg) ==
    [initialResponse |-> ir, events |-> evs, decoded |-> dec, logged |-> lg,
     returned |-> FALSE]

\* The try block, once JSON.parse has returned `parsed`.
OnParsed(parsed, st, throws) ==
    IF IsInitialResponse(parsed)
    THEN [st EXCEPT !.initialResponse = parsed.result]
    ELSE IF IsEvent(parsed)
    THEN LET called == [st EXCEPT !.events = Append(@, parsed)]
         IN  IF SinkThrowsOn(parsed, throws)
             THEN \* caught by the catch of line 692
                  [called EXCEPT !.logged = @ + 1]
             ELSE IF IsTerminal(parsed)
             THEN [called EXCEPT !.returned = TRUE]
             ELSE called
    ELSE st

\* Mutant: a line that does not parse ends the loop.
OnSyntaxErrorAborts(st) == [st EXCEPT !.logged = @ + 1, !.returned = TRUE]

\* What a SyntaxError of JSON.parse leads to: the catch of line 692.
OnSyntaxError(st) == [st EXCEPT !.logged = @ + 1]

\* One iteration of `for (const line of lines)`.
OnLine(line, st, throws) ==
    IF StartsWith(line, DataPrefix)
    THEN LET data == Slice6(line)
             p == JSONParse(data)
             st1 == [st EXCEPT !.decoded = Append(@, data)]
         IN  IF p.ok THEN OnParsed(p.value, st1, throws)
             ELSE OnSyntaxError(st1)
    ELSE st

RECURSIVE ForLines(_, _, _)
\* The for loop: it ends with the lines or with the `return`.
ForLines(lines, st, throws) ==
    IF lines = <<>> \/ st.returned THEN st
    ELSE ForLines(Tail(lines), OnLine(Head(lines), st, throws), throws)

\* Mutant: the unfinished line is not kept for the next chunk.
PopOrEmptyDropped(pieces) == <<>>

\* lines.pop() || ''
PopOrEmpty(pieces) == pieces[Len(pieces)]

\* Mutant: the last piece is handled like a finished line.
FrontWithLast(pieces) == pieces

\* lines, after the pop.
Front(pieces) == SubSeq(pieces, 1, Len(pieces) - 1)

\* initialResponse || { success: true, root_task_id: taskId, ... }
ResponseOrPlaceholder(ir, taskId) == Or(ir, Placeholder(taskId))

\* The body of the while loop of processStream (lines 664-696) for one
\* chunk: the decoder's kept bytes, the buffer and the loop state after it.
AfterChunk(kept, buf, chunk, st, throws) ==
    LET d == Decode(kept, chunk)
    IN  LET pieces == Split(buf \o d.text)
        IN  [pending |-> d.pending,
             buffer |-> PopOrEmpty(pieces),
             loop |-> ForLines(Front(pieces), st, throws)]

\* processStream's variables before the first chunk (lines 650, 657).
FreshLoop == LoopState(Null, <<>>, <<>>, 0)

\* The loop body applied to a whole byte sequence handed over as one chunk.
WholeBody(bytes, throws) == AfterChunk(<<>>, <<>>, bytes, FreshLoop, throws)

(***************************************************************************)
(* Errors and promises.                                                    *)
(***************************************************************************)
\* new Error(message): an object with a message and nothing else.
NewError(message) ==
    [message |-> message, status |-> Undefined, data |-> Undefined]

Pending == [state |-> "pending"]

Resolved(value) == [state |-> "resolved", value |-> value]

Rejected(error) == [state |-> "rejected", error |-> error]

\* What fetch, response.json() or axios reject with: an error of the
\* platform, with its own message.
NetworkFailures == {Str("Failed to fetch"), Str("")}

\* x?.message
OptMessage(x) ==
    IF x.k \in {"undefined", "null"} THEN Undefined ELSE x.v.message

\* error.message || 'Stream processing error', wrapped as the event of
\* apflow.ts:712-715.
ErrorEvent(message) ==
    [jsonrpc |-> Undefined, result |-> Undefined, type |-> Str("error"),
     final |-> Undefined, message |-> Undefined,
     error |-> Or(message, Str("Stream processing error"))]

(***************************************************************************)
(* What the server can answer.                                             *)
(***************************************************************************)
\* The bodies of a text/event-stream response: up to MaxLines lines, the
\* last one with or without its line feed.
Bodies ==
    {<<ls, t>> \in (UNION {[1..n -> LineBytes] : n \in 0..MaxLines}) \X BOOLEAN :
        ls = <<>> => t}

\* The error member of a JSON body.
ErrorMembers ==
    {Undefined, Obj([message |-> Undefined]),
     Obj([message |-> Str("Task not found")])}

\* A response body read with response.json(): not JSON, or an object with
\* its error and result members.
JsonBodies ==
    {[json |-> FALSE]} \cup
    {[json |-> TRUE, error |-> e, result |-> r] :
        e \in ErrorMembers, r \in {Undefined, ServerResult}}

\* The statuses a server answers with; response.ok is status in 200..299.
Statuses == {200, 401, 500}

ResponseOk(status) == status >= 200 /\ status <= 299

\* What the transport answered: nothing (the request failed), a response
\* with a JSON or text body, or a text/event-stream response.
NoResponse == [kind |-> "pending"]

NoAnswer(message) == [kind |-> "none", message |-> message]

JsonAnswer(status, responseBody) ==
    [kind |-> "body", status |-> status, body |-> responseBody]

StreamAnswer == [kind |-> "event-stream", status |-> 200, failure |-> Undefined]

(***************************************************************************)
(* The call.  pc is one of                                                 *)
(*   idle        no call yet                                               *)
(*   getTask     executeTask awaits this.getTask (line 568)                *)
(*   fetching    awaits fetch (line 632)                                   *)
(*   posting     awaits this.client.post (line 738)                        *)
(*   reading     processStream awaits reader.read() (line 661)             *)
(*   stopped     processStream returned at line 683                        *)
(*   ended       processStream returned at line 699                        *)
(*   streamError processStream rejected, the handler of line 709 ran       *)
(*   returned    executeTask returned without opening a stream             *)
(*   threw       executeTask threw                                         *)
(***************************************************************************)
Request(method, id, via) == [method |-> method, id |-> id, via |-> via]

\* No executeTask call was made yet.
ExecuteIdle ==
    /\ pc = "idle"
    /\ requestId = 0
    /\ sent = <<>>
    /\ useStreaming = FALSE
    /\ hasOnEvent = FALSE
    /\ sinkThrows = {}
    /\ response = NoResponse
    /\ body = <<>>
    /\ bodyLines = <<>>
    /\ pos = 0
    /\ pending = <<>>
    /\ buffer = <<>>
    /\ initialResponse = Null
    /\ events = <<>>
    /\ decoded = <<>>
    /\ logged = 0
    /\ streamResult = Undefined
    /\ ack = Pending
    /\ eventsAtAck = 0

\* The executeTask calls whose streams are open at the same time.
StreamCalls == {1, 2}

\* The variables a call of executeTask creates for its stream (reader,
\* decoder, buffer, initialResponse: lines 648-657) and what its sink saw,
\* before the stream is open.
NoStream ==
    [pc |-> "idle", body |-> <<>>, pos |-> 0, pending |-> <<>>,
     buffer |-> <<>>, initialResponse |-> Null, events |-> <<>>,
     decoded |-> <<>>, logged |-> 0]

StreamsIdle == streams = [c \in StreamCalls |-> NoStream]

\* The keys of localStorage the client reads.
StoreKeys == {"auth_token", "llm_api_key", "llm_api_key_openai", "llm_api_key_anthropic"}

\* localStorage.getItem gives null for a key that is not stored.
EmptyStore == [key \in StoreKeys |-> Null]

\* The calls made on one client while others are in flight.
MaxClientCalls == 2

ClientCalls == 1..MaxClientCalls

NoCall == [kind |-> "none", at |-> "idle"]

ClientIdle ==
    /\ store = EmptyStore
    /\ calls = [c \in ClientCalls |-> NoCall]
    /\ wire = <<>>

NoFacade == [at |-> "idle"]

FacadeIdle == facade = NoFacade

\* A detection that was not asked for, or has not returned.
NotDetected == [k |-> "none"]

DetectIdle == detectInput = NotDetected /\ detectOutput = NotDetected

ViewIdle == cache = Undefined /\ handled = <<>>

\* The variables of the pages and hooks that call the client.
pageVars == <<poll, login>>

\* No polling and no auto-login started yet.
NoPage == [at |-> "idle"]

PagesIdle == poll = NoPage /\ login = NoPage

\* Nothing else happened yet.
OthersIdle == StreamsIdle /\ ClientIdle /\ FacadeIdle /\ DetectIdle /\ ViewIdle /\ PagesIdle

Init == ExecuteIdle /\ OthersIdle

\* The behaviours of a caller's onEvent: the event types it throws on.
SinkBehaviours == {{}, {"done"}}

\* The behaviours worth telling apart for a body: a sink that throws on a
\* type the body does not hold behaves like one that never throws.
SinkBehavioursFor(lines) ==
    {t \in SinkBehaviours :
        t = {} \/ ("done" \in t /\ \E i \in 1..Len(lines) : lines[i] = DataPrefix \o TxtDone)}

\* executeTask(taskId, streaming, onEvent) up to its first await: getTask
\* has built the tasks.get request (rpcRequest, line 292).
Call(streaming, sink) ==
    /\ pc = "idle"
    /\ useStreaming' = streaming
    /\ hasOnEvent' = sink
    /\ requestId' = requestId + 1
    /\ sent' = Append(sent, Request("tasks.get", requestId + 1, "axios"))
    /\ pc' = "getTask"
    /\ UNCHANGED <<otherVars, sinkThrows, response, streamVars, events, ack, eventsAtAck>>

\* Mutant: the streaming path is taken without an event sink.
TakesStreamingPathIgnoresSink(streaming, sink) == streaming

\* useStreaming && onEvent (window and EventSource exist in the browser).
TakesStreamingPath(streaming, sink) == streaming /\ sink

\* getTask settled (a failure is caught, line 570): the tasks.execute
\* request is built and handed to fetch or to the shared HTTP client.
GetTaskSettled ==
    /\ pc = "getTask"
    /\ requestId' = requestId + 1
    /\ IF TakesStreamingPath(useStreaming, hasOnEvent)
       THEN /\ sent' = Append(sent, Request("tasks.execute", requestId + 1, "fetch"))
            /\ pc' = "fetching"
       ELSE /\ sent' = Append(sent, Request("tasks.execute", requestId + 1, "axios"))
            /\ pc' = "posting"
    /\ UNCHANGED <<otherVars, useStreaming, hasOnEvent, sinkThrows, response, streamVars,
                   events, ack, eventsAtAck>>

\* executeTask settles its promise and is over.
Settle(answer, outcome, where) ==
    /\ response' = answer
    /\ ack' = outcome
    /\ eventsAtAck' = Len(events)
    /\ pc' = where
    /\ UNCHANGED <<otherVars, requestId, sent, useStreaming, hasOnEvent, sinkThrows,
                   streamVars, events>>

\* fetch rejects: no response at all.
FetchRejects(message) ==
    /\ pc = "fetching"
    /\ Settle(NoAnswer(message), Rejected(NewError(message)), "threw")

\* Mutant: the body of the response is not looked at.
NotOkMessageIgnoresBody(responseBody) == Str("Unknown error")

\* The message of the error thrown for a response that is not ok
\* (lines 640-641).
NotOkMessage(responseBody) ==
    LET errorData == IF responseBody.json THEN responseBody
                     ELSE [json |-> TRUE,
                           error |-> Obj([message |-> Str("Unknown error")]),
                           result |-> Undefined]
    IN  Or(OptMessage(errorData.error), Str("Unknown error"))

\* The error thrown for a response that is not ok.
NotOkError(status, responseBody) == NewError(NotOkMessage(responseBody))

\* fetch resolves with a response that is not ok.
FetchNotOk(status, responseBody) ==
    /\ pc = "fetching"
    /\ ~ResponseOk(status)
    /\ Settle(JsonAnswer(status, responseBody),
              Rejected(NotOkError(status, responseBody)), "threw")

\* What executeTask returns at line 720, processStream having just been
\* started.
StreamingReturn(ir, taskId) == ResponseOrPlaceholder(ir, taskId)

\* Mutant: executeTask awaits processStream before it returns.
FetchEventStreamAwaited(lines, terminated, throws) ==
    /\ pc = "fetching"
    /\ sinkThrows' = throws
    /\ response' = StreamAnswer
    /\ body' = Join(lines, terminated)
    /\ bodyLines' = <<lines, terminated>>
    /\ \E r \in {WholeBody(Join(lines, terminated), throws)} :
           /\ pos' = Len(Join(lines, terminated))
           /\ pending' = r.pending
           /\ buffer' = r.buffer
           /\ initialResponse' = r.loop.initialResponse
           /\ events' = r.loop.events
           /\ decoded' = r.loop.decoded
           /\ logged' = r.loop.logged
           /\ pc' = IF r.loop.returned THEN "stopped" ELSE "ended"
           /\ streamResult' = ResponseOrPlaceholder(r.loop.initialResponse, TaskId)
           /\ ack' = Resolved(ResponseOrPlaceholder(r.loop.initialResponse, TaskId))
           /\ eventsAtAck' = Len(r.loop.events)
    /\ UNCHANGED <<otherVars, requestId, sent, useStreaming, hasOnEvent>>

\* fetch resolves with an ok text/event-stream response: processStream is
\* started and runs to its first reader.read(), and executeTask returns.
FetchEventStream(lines, terminated, throws) ==
    /\ pc = "fetching"
    /\ sinkThrows' = throws
    /\ response' = StreamAnswer
    /\ body' = Join(lines, terminated)
    /\ bodyLines' = <<lines, terminated>>
    /\ ack' = Resolved(StreamingReturn(initialResponse, TaskId))
    /\ eventsAtAck' = Len(events)
    /\ pc' = "reading"
    /\ UNCHANGED <<otherVars, requestId, sent, useStreaming, hasOnEvent, pos, pending,
                   buffer, initialResponse, events, decoded, logged,
                   streamResult>>

\* fetch resolves with an ok text/event-stream response without a body.
FetchNoBody ==
    /\ pc = "fetching"
    /\ Settle(StreamAnswer,
              Rejected(NewError(Str("Response body is not readable"))), "threw")

\* What the JSON fallback does with the body (lines 729-733).
FallbackOutcome(responseBody) ==
    IF ~responseBody.json THEN Rejected(NewError(Str("Unexpected token")))
    ELSE IF Truthy(responseBody.error)
    THEN Rejected(NewError(Or(responseBody.error.v.message, Str("Unknown error"))))
    ELSE Resolved(Or(responseBody.result, Obj(responseBody)))

\* fetch resolves with an ok response of another content type.
FetchJson(responseBody) ==
    /\ pc = "fetching"
    /\ LET outcome == FallbackOutcome(responseBody)
       IN  Settle(JsonAnswer(200, responseBody), outcome, IF outcome.state = "resolved" THEN "returned" ELSE "threw")

\* What executeTask does with the response of this.client.post
\* (lines 744-748); a body that is not JSON is a string, without members.
PostOutcome(responseBody) ==
    IF ~responseBody.json THEN Resolved(Undefined)
    ELSE IF Truthy(responseBody.error)
    THEN Rejected(NewError(Or(responseBody.error.v.message, Str("Unknown error"))))
    ELSE Resolved(responseBody.result)

\* this.client.post resolves (a 2xx response).
PostResolves(responseBody) ==
    /\ pc = "posting"
    /\ LET outcome == PostOutcome(responseBody)
       IN  Settle(JsonAnswer(200, responseBody), outcome, IF outcome.state = "resolved" THEN "returned" ELSE "threw")

\* this.client.post rejects: no response, a timeout, or a status that is
\* not 2xx; the error passes through executeTask unchanged.
PostRejects(message) ==
    /\ pc = "posting"
    /\ Settle(NoAnswer(message), Rejected(NewError(message)), "threw")

\* One turn of the while loop of processStream: reader.read() resolves with
\* the next n bytes.
ReadChunk(n) ==
    /\ pc = "reading"
    /\ pos + n <= Len(body)
    /\ \E r \in {AfterChunk(pending, buffer, SubSeq(body, pos + 1, pos + n),
                             LoopState(initialResponse, events, decoded, logged),
                             sinkThrows)} :
           /\ pos' = pos + n
           /\ pending' = r.pending
           /\ buffer' = r.buffer
           /\ initialResponse' = r.loop.initialResponse
           /\ events' = r.loop.events
           /\ decoded' = r.loop.decoded
           /\ logged' = r.loop.logged
           /\ pc' = IF r.loop.returned THEN "stopped" ELSE "reading"
           /\ streamResult' = IF r.loop.returned
                              THEN ResponseOrPlaceholder(r.loop.initialResponse, TaskId)
                              ELSE streamResult
    /\ UNCHANGED <<otherVars, requestId, sent, useStreaming, hasOnEvent, sinkThrows,
                   response, body, bodyLines, ack, eventsAtAck>>

\* reader.read() resolves with done: the natural end of the body.
ReadDone ==
    /\ pc = "reading"
    /\ pos = Len(body)
    /\ pc' = "ended"
    /\ streamResult' = ResponseOrPlaceholder(initialResponse, TaskId)
    /\ UNCHANGED <<otherVars, requestId, sent, useStreaming, hasOnEvent, sinkThrows,
                   response, body, bodyLines, pos, pending, buffer, initialResponse,
                   events, decoded, logged, ack, eventsAtAck>>

\* Mutant: a rejection of processStream is only logged.
OnStreamFailureSwallowed(evs, message) == evs

\* What the handler of lines 709-717 does with a rejection of
\* processStream: it reports it to onEvent.
OnStreamFailure(evs, message) == Append(evs, ErrorEvent(message))

\* reader.read() rejects: the connection failed while the body was read.
ReadFails(message) ==
    /\ pc = "reading"
    /\ events' = OnStreamFailure(events, message)
    /\ response' = [response EXCEPT !.failure = message]
    /\ pc' = "streamError"
    /\ UNCHANGED <<otherVars, requestId, sent, useStreaming, hasOnEvent, sinkThrows,
                   streamVars, ack, eventsAtAck>>

Next ==
    \/ \E streaming \in BOOLEAN, sink \in BOOLEAN : Call(streaming, sink)
    \/ GetTaskSettled
    \/ \E m \in NetworkFailures : FetchRejects(m)
    \/ \E st \in Statuses, b \in JsonBodies : FetchNotOk(st, b)
    \/ \E b \in Bodies : \E throws \in SinkBehavioursFor(b[1]) :
          FetchEventStream(b[1], b[2], throws)
    \/ FetchNoBody
    \/ \E b \in JsonBodies : FetchJson(b)
    \/ \E b \in JsonBodies : PostResolves(b)
    \/ \E m \in NetworkFailures : PostRejects(m)
    \/ \E n \in 1..(Len(body) - pos) : ReadChunk(n)
    \/ ReadDone
    \/ \E m \in NetworkFailures : ReadFails(m)

Spec == Init /\ [][Next]_vars

(***************************************************************************)
(* Two executeTask calls of one client with their streams open together.   *)
(* Each call runs its own processStream closure over its own reader,       *)
(* decoder, buffer and initialResponse; the chunks of the two responses     *)
(* arrive in any order.                                                    *)
(***************************************************************************)
MaxConcurrentLines == 2

\* The lines the two servers write: an acknowledgement, an event, a
\* terminal event.
ConcurrentLines == {DataPrefix \o TxtAck, DataPrefix \o TxtProgress, DataPrefix \o TxtDone}

\* The bodies of the two responses, as bytes.
ConcurrentBodies ==
    {Join(ls, TRUE) : ls \in UNION {[1..n -> ConcurrentLines] : n \in 0..MaxConcurrentLines}}

\* Mutant: the buffer is a field of the client, shared by its calls: every
\* call reads what the first one left.
BufferOfShared(ss, c) == ss[1].buffer

\* The buffer the closure of call c reads: its own `let buffer` (line 650).
BufferOf(ss, c) == ss[c].buffer

\* fetch of call c resolved with a text/event-stream response: its
\* processStream starts.
OpenStream(c, bytes) ==
    /\ streams[c].pc = "idle"
    /\ streams' = [streams EXCEPT ![c] = [NoStream EXCEPT !.pc = "reading", !.body = bytes]]
    /\ UNCHANGED <<executeVars, clientVars, facade, detectVars, viewVars, pageVars>>

\* One turn of the while loop of call c: its reader hands out n bytes.
ReadChunkOf(c, n) ==
    /\ streams[c].pc = "reading"
    /\ streams[c].pos + n <= Len(streams[c].body)
    /\ \E r \in {AfterChunk(streams[c].pending, BufferOf(streams, c),
                             SubSeq(streams[c].body, streams[c].pos + 1, streams[c].pos + n),
                             LoopState(streams[c].initialResponse, streams[c].events,
                                       streams[c].decoded, streams[c].logged),
                             {})} :
           streams' = [streams EXCEPT ![c] =
                          [pc |-> IF r.loop.returned THEN "stopped" ELSE "reading",
                           body |-> streams[c].body,
                           pos |-> streams[c].pos + n,
                           pending |-> r.pending,
                           buffer |-> r.buffer,
                           initialResponse |-> r.loop.initialResponse,
                           events |-> r.loop.events,
                           decoded |-> r.loop.decoded,
                           logged |-> r.loop.logged]]
    /\ UNCHANGED <<executeVars, clientVars, facade, detectVars, viewVars, pageVars>>

\* The reader of call c reports the end of its body.
ReadDoneOf(c) ==
    /\ streams[c].pc = "reading"
    /\ streams[c].pos = Len(streams[c].body)
    /\ streams' = [streams EXCEPT ![c].pc = "ended"]
    /\ UNCHANGED <<executeVars, clientVars, facade, detectVars, viewVars, pageVars>>

NextConcurrent ==
    \/ \E c \in StreamCalls, bytes \in ConcurrentBodies : OpenStream(c, bytes)
    \/ \E c \in StreamCalls : \E n \in 1..(Len(streams[c].body) - streams[c].pos) :
          ReadChunkOf(c, n)
    \/ \E c \in StreamCalls : ReadDoneOf(c)

SpecConcurrent == Init /\ [][NextConcurrent]_vars

(***************************************************************************)
(* Provider detection (apflow.ts:497-548).  Model names are strings; a     *)
(* task is the object tasks.get returns, its `works.agents` member holding *)
(* the agent configurations in the order Object.values gives them.         *)
(***************************************************************************)
UpperCaseLetters == "ABCDEFGHIJKLMNOPQRSTUVWXYZ"

LowerCaseLetters == "abcdefghijklmnopqrstuvwxyz"

CharAt(s, i) == SubSeq(s, i, i)

\* One character of s.toLowerCase().
LowerChar(ch) ==
    IF \E i \in 1..Len(UpperCaseLetters) : CharAt(UpperCaseLetters, i) = ch
    THEN CharAt(LowerCaseLetters,
                CHOOSE i \in 1..Len(UpperCaseLetters) : CharAt(UpperCaseLetters, i) = ch)
    ELSE ch

RECURSIVE LowerFrom(_, _)
LowerFrom(s, i) ==
    IF i > Len(s) THEN "" ELSE LowerChar(CharAt(s, i)) \o LowerFrom(s, i + 1)

\* Mutant: the name is compared as written.
ToLowerCaseAsWritten(s) == s

\* s.toLowerCase()
ToLowerCase(s) == LowerFrom(s, 1)

\* s.includes(part)
Includes(s, part) ==
    \E i \in 1..(Len(s) - Len(part) + 1) : SubSeq(s, i, i + Len(part) - 1) = part

\* s.split(sep)[0], for a separator of one character
SplitFirst(s, sep) ==
    IF Includes(s, sep)
    THEN SubSeq(s, 1, (CHOOSE i \in 1..Len(s) :
                          /\ CharAt(s, i) = sep
                          /\ \A j \in 1..(i - 1) : CharAt(s, j) # sep) - 1)
    ELSE s

\* The array literal of line 529.
ProviderTags ==
    {"openai", "anthropic", "google", "gemini", "azure", "cohere", "mistral",
     "groq", "together", "ai21", "replicate", "ollama", "deepinfra"}

\* detectProviderFromModel(modelName)
DetectProviderFromModel(modelName) ==
    IF modelName = "" THEN Undefined
    ELSE LET modelLower == ToLowerCase(modelName)
         IN  IF Includes(modelLower, "/") /\ SplitFirst(modelLower, "/") \in ProviderTags
             THEN Str(SplitFirst(modelLower, "/"))
             ELSE IF Includes(modelLower, "gpt-") \/ Includes(modelLower, "gpt")
             THEN Str("openai")
             ELSE IF Includes(modelLower, "claude") THEN Str("anthropic")
             ELSE IF Includes(modelLower, "gemini") \/ Includes(modelLower, "palm")
             THEN Str("google")
             ELSE IF Includes(modelLower, "command") THEN Str("cohere")
             ELSE IF Includes(modelLower, "mistral") \/ Includes(modelLower, "mixtral")
             THEN Str("mistral")
             ELSE IF Includes(modelLower, "llama") THEN Str("groq")
             ELSE IF Includes(modelLower, "j2-") THEN Str("ai21")
             ELSE IF Includes(modelLower, "togethercomputer") THEN Str("together")
             ELSE IF Includes(modelLower, "replicate") THEN Str("replicate")
             ELSE IF Includes(modelLower, "ollama") THEN Str("ollama")
             ELSE IF Includes(modelLower, "deepinfra") THEN Str("deepinfra")
             ELSE Undefined

\* x?.[member]
OptGet(x, member) ==
    IF x.k \in {"undefined", "null"} THEN Undefined ELSE x.v[member]

RECURSIVE ForAgents(_, _)
\* The for loop of lines 501-507 from the i-th agent on: whether it
\* returned, and what.
ForAgents(agents, i) ==
    IF i > Len(agents) THEN [returned |-> FALSE]
    ELSE LET llm == OptGet(agents[i], "llm")
         IN  IF llm.k = "string"
             THEN [returned |-> TRUE, value |-> DetectProviderFromModel(llm.v)]
             ELSE ForAgents(agents, i + 1)

\* detectProviderFromTask(task)
DetectProviderFromTask(task) ==
    LET works == OptGet(OptGet(task, "params"), "works")
        agents == OptGet(works, "agents")
        loop == IF Truthy(agents) THEN ForAgents(agents.v, 1) ELSE [returned |-> FALSE]
        crew == OptGet(works, "llm")
    IN  IF loop.returned THEN loop.value
        ELSE IF Truthy(crew) /\ crew.k = "string" THEN DetectProviderFromModel(crew.v)
        ELSE Undefined

\* The model names tried: a prefix and a stem.
NamePrefixes == {"", "openai/", "Anthropic/", "gemini/", "foo/", "/"}

NameStems ==
    {"", "gpt-4", "GPT4", "claude-3-opus", "gemini-pro", "text-palm", "command-r",
     "Mixtral-8x7b", "mistral-7b", "llama3", "j2-ultra", "togethercomputer/x",
     "replicate", "ollama", "deepinfra", "my-model"}

ModelNames == {p \o st : p \in NamePrefixes, st \in NameStems}

\* The values of an `llm` member: absent, not a string, empty, a name.
LlmValues ==
    {Undefined, Num(4), Str(""), Str("gpt-4"), Str("claude-3-opus"), Str("my-model")}

MaxAgents == 2

\* The values of works.agents, as Object.values lists them.
AgentLists ==
    UNION {[1..n -> {Obj([llm |-> l]) : l \in LlmValues}] : n \in 0..MaxAgents}

TaskWith(agents, llm) ==
    Obj([params |-> Obj([works |-> Obj([agents |-> agents, llm |-> llm])])])

\* The tasks tried: without params, without works, without agents, with
\* agents and a crew-level llm.
DetectTasks ==
    {Obj([params |-> Undefined]), Obj([params |-> Obj([works |-> Undefined])])}
    \cup {TaskWith(Undefined, l) : l \in LlmValues}
    \cup {TaskWith(Obj(a), l) : a \in AgentLists, l \in LlmValues}

DetectInputs ==
    {[k |-> "task", v |-> t] : t \in DetectTasks}
    \cup {[k |-> "model", v |-> n] : n \in ModelNames}

InitDetect ==
    /\ ExecuteIdle /\ StreamsIdle /\ ClientIdle /\ FacadeIdle /\ ViewIdle /\ PagesIdle
    /\ detectInput \in DetectInputs
    /\ detectOutput = NotDetected

Returned(value) == [k |-> "returned", v |-> value]

CallDetectProviderFromTask ==
    /\ detectInput.k = "task"
    /\ detectOutput = NotDetected
    /\ detectOutput' = Returned(DetectProviderFromTask(detectInput.v))
    /\ UNCHANGED <<executeVars, streams, clientVars, facade, detectInput, viewVars, pageVars>>

CallDetectProviderFromModel ==
    /\ detectInput.k = "model"
    /\ detectOutput = NotDetected
    /\ detectOutput' = Returned(DetectProviderFromModel(detectInput.v))
    /\ UNCHANGED <<executeVars, streams, clientVars, facade, detectInput, viewVars, pageVars>>

NextDetect == CallDetectProviderFromTask \/ CallDetectProviderFromModel

SpecDetect == InitDetect /\ [][NextDetect]_vars

(***************************************************************************)
(* The requests of one client: façade calls (rpcRequest) and executeTask   *)
(* calls made while others are in flight, with the headers each request    *)
(* leaves with.  A request on the wire records, beside what is sent, the   *)
(* call it belongs to, the provider detected for it and the credential     *)
(* store as it was when the request was sent.                              *)
(***************************************************************************)
HeaderNames == {"Content-Type", "Authorization", "X-LLM-API-KEY"}

\* The headers of axios.create (line 147) and of line 590.
JsonHeaders ==
    [h \in HeaderNames |-> IF h = "Content-Type" THEN Str("application/json") ELSE Undefined]

\* Mutant: `this.requestId++`, the value before the increment is the id.
PostIncrement(counter) == [id |-> counter, counter |-> counter + 1]

\* `++this.requestId`: the id placed in the envelope, and the counter after.
PreIncrement(counter) == [id |-> counter + 1, counter |-> counter + 1]

\* Mutant: the interceptor sets the generic key over a header already set.
InterceptorOverwritesKey(headers, st) ==
    [h \in HeaderNames |->
        CASE h = "Authorization" ->
               IF Truthy(st["auth_token"])
               THEN Str("Bearer " \o st["auth_token"].v)
               ELSE headers[h]
          [] h = "X-LLM-API-KEY" ->
               IF Truthy(st["llm_api_key"]) THEN st["llm_api_key"] ELSE headers[h]
          [] OTHER -> headers[h]]

\* The request interceptor (lines 160-180), run by axios on every request
\* of this.client.
Interceptor(headers, st) ==
    [h \in HeaderNames |->
        CASE h = "Authorization" ->
               IF Truthy(st["auth_token"])
               THEN Str("Bearer " \o st["auth_token"].v)
               ELSE headers[h]
          [] h = "X-LLM-API-KEY" ->
               IF ~Truthy(headers[h]) /\ Truthy(st["llm_api_key"])
               THEN st["llm_api_key"]
               ELSE headers[h]
          [] OTHER -> headers[h]]

\* Mutant: the key is sent as stored, without the provider.
LlmKeyHeadersUnformatted(provider, st) ==
    [JsonHeaders EXCEPT !["X-LLM-API-KEY"] =
        IF Truthy(provider) /\ Truthy(st["llm_api_key_" \o provider.v])
        THEN st["llm_api_key_" \o provider.v]
        ELSE IF Truthy(st["llm_api_key"]) THEN st["llm_api_key"] ELSE Undefined]

\* The headers executeTask builds (lines 590-616).
LlmKeyHeaders(provider, st) ==
    LET specific == IF Truthy(provider)
                    THEN (IF "llm_api_key_" \o provider.v \in DOMAIN st
                          THEN st["llm_api_key_" \o provider.v] ELSE Null)
                    ELSE Null
        llmKey == IF ~Truthy(specific) THEN st["llm_api_key"] ELSE specific
    IN  [JsonHeaders EXCEPT !["X-LLM-API-KEY"] =
            IF Truthy(llmKey)
            THEN (IF Truthy(provider) THEN Str(provider.v \o ":" \o llmKey.v) ELSE llmKey)
            ELSE Undefined]

\* Mutant: the request sent with fetch leaves without the token.
FetchHeadersWithoutToken(headers, st) == headers

\* { ...headers, ...authHeaders } of lines 621-628.
FetchHeaders(headers, st) ==
    IF Truthy(st["auth_token"])
    THEN [headers EXCEPT !["Authorization"] = Str("Bearer " \o st["auth_token"].v)]
    ELSE headers

\* A request as it leaves.
WireRequest(c, method, id, via, headers, provider, st) ==
    [call |-> c, method |-> method, id |-> id, via |-> via, headers |-> headers,
     provider |-> provider, store |-> st]

\* What setHeaderKeyMutation of the LLM-key settings page stores as
\* llm_api_key for a key and the provider selected ('' for auto-detect):
\* `provider:key`, the key alone, or nothing (removeItem) for an empty key.
FormattedKey(key, provider) ==
    IF key # ""
    THEN (IF provider # "" THEN Str(provider \o ":" \o key) ELSE Str(key))
    ELSE Null

\* The generic keys the page has stored, or removed, before the session.
HeaderKeys == {FormattedKey(key, provider) : key \in {"", "K"}, provider \in {"", "openai"}}

\* The stores a session starts with: each key stored, with a non-empty
\* value, or not.
InitialStores ==
    {st \in [StoreKeys -> {Null, Str("T1"), Str("KO")} \cup HeaderKeys] :
        /\ st["auth_token"] \in {Null, Str("T1")}
        /\ st["llm_api_key"] \in HeaderKeys
        /\ st["llm_api_key_openai"] \in {Null, Str("KO")}
        /\ st["llm_api_key_anthropic"] = Null}

\* What the settings form is submitted with.
TokenInputs == {"", "T2"}

\* The tasks tasks.get answers with.
ClientTasks ==
    {Obj([params |-> Undefined]),
     TaskWith(Obj(<<Obj([llm |-> Str("openai/gpt-4")])>>), Undefined),
     TaskWith(Obj(<<Obj([llm |-> Str("claude-3-opus")])>>), Undefined),
     TaskWith(Obj(<<Obj([llm |-> Str("my-model")])>>), Undefined)}

\* How getTask settles for executeTask: with a task, or with a failure.
GetTaskAnswers == {[ok |-> FALSE]} \cup {[ok |-> TRUE, task |-> t] : t \in ClientTasks}

\* The methods of the façade calls made.
FacadeMethods == {"tasks.get", "tasks.list"}

InitClient ==
    /\ ExecuteIdle /\ StreamsIdle /\ FacadeIdle /\ DetectIdle /\ ViewIdle /\ PagesIdle
    /\ store \in InitialStores
    /\ calls = [c \in ClientCalls |-> NoCall]
    /\ wire = <<>>

\* handleSubmit of the settings page (settings/page.tsx:46-53).
SaveSettings(authToken) ==
    /\ store' = [store EXCEPT !["auth_token"] =
                     IF authToken # "" THEN Str(authToken) ELSE Null]
    /\ store' # store
    /\ UNCHANGED <<executeVars, streams, calls, wire, facade, detectVars, viewVars, pageVars>>

\* Calls are numbered in the order in which they are made.
IsNextCall(c) ==
    /\ calls[c] = NoCall
    /\ \A d \in ClientCalls : d < c => calls[d] # NoCall

\* A façade method calls rpcRequest: the envelope is built and posted.
FacadeCall(c, method) ==
    /\ IsNextCall(c)
    /\ requestId' = PreIncrement(requestId).counter
    /\ wire' = Append(wire, WireRequest(c, method, PreIncrement(requestId).id, "axios",
                                        Interceptor(JsonHeaders, store), Undefined, store))
    /\ calls' = [calls EXCEPT ![c] = [kind |-> "facade", at |-> "awaiting"]]
    /\ UNCHANGED <<callVars, streams, store, facade, detectVars, viewVars, pageVars>>

\* The promise of this.client.post settles for a façade call.
FacadeSettles(c) ==
    /\ calls[c].kind = "facade"
    /\ calls[c].at = "awaiting"
    /\ calls' = [calls EXCEPT ![c].at = "done"]
    /\ UNCHANGED <<executeVars, streams, store, wire, facade, detectVars, viewVars, pageVars>>

\* executeTask up to its first await: getTask posts tasks.get.
ExecuteTaskCall(c, streaming, sink) ==
    /\ IsNextCall(c)
    /\ requestId' = PreIncrement(requestId).counter
    /\ wire' = Append(wire, WireRequest(c, "tasks.get", PreIncrement(requestId).id, "axios",
                                        Interceptor(JsonHeaders, store), Undefined, store))
    /\ calls' = [calls EXCEPT ![c] =
                    [kind |-> "execute", at |-> "getTask",
                     streams |-> TakesStreamingPath(streaming, sink)]]
    /\ UNCHANGED <<callVars, streams, store, facade, detectVars, viewVars, pageVars>>

\* getTask settled for executeTask: the provider is detected (or not, line
\* 570), the tasks.execute envelope and its headers are built, and the
\* request is handed to fetch or to this.client.post (lines 575-637, 738).
ExecuteTaskSend(c, answer) ==
    /\ calls[c].kind = "execute"
    /\ calls[c].at = "getTask"
    /\ LET provider == IF answer.ok THEN DetectProviderFromTask(answer.task) ELSE Undefined
           headers == LlmKeyHeaders(provider, store)
       IN  wire' = Append(wire,
                      IF calls[c].streams
                      THEN WireRequest(c, "tasks.execute", PreIncrement(requestId).id, "fetch",
                                       FetchHeaders(headers, store), provider, store)
                      ELSE WireRequest(c, "tasks.execute", PreIncrement(requestId).id, "axios",
                                       Interceptor(headers, store), provider, store))
    /\ requestId' = PreIncrement(requestId).counter
    /\ calls' = [calls EXCEPT ![c].at = "sent"]
    /\ UNCHANGED <<callVars, streams, store, facade, detectVars, viewVars, pageVars>>

NextClient ==
    \/ \E t \in TokenInputs : SaveSettings(t)
    \/ \E c \in ClientCalls, m \in FacadeMethods : FacadeCall(c, m)
    \/ \E c \in ClientCalls : FacadeSettles(c)
    \/ \E c \in ClientCalls, streaming \in BOOLEAN, sink \in BOOLEAN :
          ExecuteTaskCall(c, streaming, sink)
    \/ \E c \in ClientCalls, a \in GetTaskAnswers : ExecuteTaskSend(c, a)

SpecClient == InitClient /\ [][NextClient]_vars

(***************************************************************************)
(* One façade call: the method builds its parameters and calls rpcRequest  *)
(* (lines 287-387), axios answers, and rpcRequest returns or throws.       *)
(* The long texts of the errors rpcRequest makes are cut after their first *)
(* sentence.                                                               *)
(***************************************************************************)
BaseURL == "http://localhost:8000"

\* x.member, for a value that may also be a string (a body that is not JSON)
Member(x, member) == IF x.k = "object" THEN x.v[member] ELSE Undefined

\* String(x), for the values an error object holds
StringOf(x) ==
    CASE x.k = "string" -> x.v
      [] x.k = "undefined" -> "undefined"
      [] x.k = "null" -> "null"
      [] OTHER -> "[object Object]"

\* An Error object and the members the code reads or sets on it.
ErrorObject(message, code, resp) ==
    [message |-> message, code |-> code, response |-> resp,
     status |-> Undefined, rpcError |-> Undefined, made |-> "thrown"]

\* The error object of a JSON-RPC response.
RpcErrorMember(code, message, data) ==
    Obj([code |-> code, message |-> message, data |-> data])

\* The codes, summaries and details a server sends.
ErrorCodes == {Num(-32000), Num(0)}

ErrorSummaries == {Str("x"), Str("Execution failed")}

ErrorDetails ==
    {Undefined, Str(""), Str("y"), Str("LLM call timeout after 60s"),
     Str("upstream: Network Error")}

RpcErrorMembers ==
    {RpcErrorMember(c, m, d) : c \in ErrorCodes, m \in ErrorSummaries, d \in ErrorDetails}

\* The body of a response: not JSON, or a JSON-RPC response object.
RpcData(result, error) == Obj([jsonrpc |-> Str("2.0"), result |-> result, error |-> error])

\* What axios settles with: a 2xx response, or an AxiosError, without a
\* response (no connection, timeout) or with one (another status).
AxiosResponse(status, data) == [kind |-> "response", status |-> status, data |-> data]

AxiosError(code, message, resp) ==
    [kind |-> "error", error |-> ErrorObject(message, code, resp)]

ErrorStatuses == {401, 500}

AxiosFailures ==
    {AxiosError(Str("ERR_NETWORK"), Str("Network Error"), Undefined),
     AxiosError(Str("ECONNABORTED"), Str("timeout of 30000ms exceeded"), Undefined)}
    \cup {AxiosError(Str("ERR_BAD_RESPONSE"), Str("Request failed with status code"),
                     Obj([status |-> Num(st), data |-> d])) :
             st \in ErrorStatuses,
             d \in {Str("<html>")} \cup {RpcData(Undefined, e) : e \in RpcErrorMembers}}

\* The answers to a call whose results are drawn from `results`.
AxiosAnswers(results) ==
    {AxiosResponse(200, RpcData(r, Undefined)) : r \in results}
    \cup {AxiosResponse(200, RpcData(Undefined, e)) : e \in RpcErrorMembers}
    \cup {AxiosResponse(200, Str("<html>"))}
    \cup AxiosFailures

\* The error of lines 300-305 and 371-376.
RpcError(error) ==
    [ErrorObject(Str(StringOf(Or(Or(error.v.data, error.v.message), Str("RPC Error")))),
                 error.v.code, Undefined)
        EXCEPT !.rpcError = error, !.made = "rpc"]

\* The try block of rpcRequest, the promise of this.client.post settled.
TryBlock(answer) ==
    IF answer.kind = "error" THEN [returned |-> FALSE, error |-> answer.error]
    ELSE IF Truthy(Member(answer.data, "error"))
    THEN [returned |-> FALSE, error |-> RpcError(Member(answer.data, "error"))]
    ELSE [returned |-> TRUE, value |-> Member(answer.data, "result")]

\* The catch block of rpcRequest (lines 310-386): what it throws.
CatchBlock(error, endpoint) ==
    LET errorCode == Or(error.code, Str(""))
        errorMessage == Or(error.message, Str("Error"))
    IN  IF \/ errorCode = Str("ERR_NETWORK")
           \/ errorMessage = Str("Network Error")
           \/ Includes(errorMessage.v, "Network Error")
        THEN [ErrorObject(Str("Unable to connect to API server at " \o BaseURL \o endpoint \o "."),
                          errorCode, Undefined)
                 EXCEPT !.made = "network"]
        ELSE IF errorCode = Str("ECONNABORTED") \/ Includes(errorMessage.v, "timeout")
        THEN [ErrorObject(Str("Request timeout: The API server at " \o BaseURL \o endpoint
                              \o " did not respond within 30 seconds."),
                          errorCode, Undefined)
                 EXCEPT !.made = "timeout"]
        ELSE IF OptGet(error.response, "status") = Num(401)
        THEN [ErrorObject(Str("Authentication failed (401) for " \o BaseURL \o endpoint),
                          Undefined, Undefined)
                 EXCEPT !.status = Num(401), !.made = "auth"]
        ELSE IF Truthy(Member(OptGet(error.response, "data"), "error"))
        THEN RpcError(Member(OptGet(error.response, "data"), "error"))
        ELSE error

\* rpcRequest once this.client.post has settled: an error thrown in the try
\* block, the one of line 306 included, passes through the catch block.
RpcOutcome(answer, endpoint) ==
    LET t == TryBlock(answer)
    IN  IF t.returned THEN Resolved(t.value) ELSE Rejected(CatchBlock(t.error, endpoint))

\* The envelope of lines 288-293.
RpcEnvelope(method, params, id) ==
    [jsonrpc |-> "2.0", method |-> method, params |-> params, id |-> id]

\* A façade method has called rpcRequest, which awaits this.client.post.
Awaiting(method, args, params, id) ==
    [at |-> "awaiting", method |-> method, args |-> args,
     request |-> RpcEnvelope(method, params, id)]

\* getTask(taskId) (lines 413-418)
GetTask(taskId) ==
    /\ facade = NoFacade
    /\ IF taskId = ""
       THEN /\ facade' = [at |-> "done", method |-> "tasks.get", args |-> Str(taskId),
                          outcome |-> Rejected(ErrorObject(Str("Task ID is required"),
                                                           Undefined, Undefined))]
            /\ UNCHANGED requestId
       ELSE /\ facade' = Awaiting("tasks.get", Str(taskId), Obj([task_id |-> Str(taskId)]),
                                  PreIncrement(requestId).id)
            /\ requestId' = PreIncrement(requestId).counter
    /\ UNCHANGED <<callVars, streams, clientVars, detectVars, viewVars, pageVars>>

\* The results tasks.get answers with.
TaskResults == {Undefined, Obj([id |-> Str("t1"), status |-> Str("pending")])}

\* this.client.post settles for getTask, and rpcRequest with it.
GetTaskSettles(answer) ==
    /\ facade.at = "awaiting"
    /\ facade.method = "tasks.get"
    /\ facade' = [at |-> "done", method |-> facade.method, args |-> facade.args,
                  request |-> facade.request, answer |-> answer,
                  outcome |-> RpcOutcome(answer, "/tasks")]
    /\ UNCHANGED <<executeVars, streams, clientVars, detectVars, viewVars, pageVars>>

\* An array.
Arr(elements) == [k |-> "array", v |-> elements]

\* Mutant: a || b in the place of a ?? b.
NullishAsOr(a, b) == Or(a, b)

\* a ?? b
Nullish(a, b) == IF a.k \in {"undefined", "null"} THEN b ELSE a

\* The argument of listTasks: omitted, or an object with some of its members.
ListParams ==
    {Undefined} \cup
    {Obj([userId |-> u, status |-> Undefined, root_only |-> r, limit |-> l, offset |-> o]) :
        u \in {Undefined, Str("u1")},
        r \in {Undefined, Bool(FALSE), Bool(TRUE)},
        l \in {Undefined, Num(0), Num(50)},
        o \in {Undefined, Num(0), Num(10)}}

\* listTasks(params) (lines 830-844)
ListTasks(params) ==
    /\ facade = NoFacade
    /\ facade' = Awaiting("tasks.list", params,
                          Obj([user_id |-> OptGet(params, "userId"),
                               status |-> OptGet(params, "status"),
                               root_only |-> Nullish(OptGet(params, "root_only"), Bool(TRUE)),
                               limit |-> Nullish(OptGet(params, "limit"), Num(100)),
                               offset |-> Nullish(OptGet(params, "offset"), Num(0))]),
                          PreIncrement(requestId).id)
    /\ requestId' = PreIncrement(requestId).counter
    /\ UNCHANGED <<callVars, streams, clientVars, detectVars, viewVars, pageVars>>

\* The results tasks.list answers with.
ListResults == {Arr(<<>>), Arr(<<Obj([id |-> Str("t1"), status |-> Str("pending")])>>)}

\* this.client.post settles for listTasks, and rpcRequest with it.
ListTasksSettles(answer) ==
    /\ facade.at = "awaiting"
    /\ facade.method = "tasks.list"
    /\ facade' = [at |-> "done", method |-> facade.method, args |-> facade.args,
                  request |-> facade.request, answer |-> answer,
                  outcome |-> RpcOutcome(answer, "/tasks")]
    /\ UNCHANGED <<executeVars, streams, clientVars, detectVars, viewVars, pageVars>>

\* The nested answer of tasks.tree and tasks.detail has at most MaxNodes
\* nodes.
MaxNodes == 4

\* The tasks of the nodes.
TreeTasks == {Obj([id |-> Str("a")]), Obj([id |-> Str("b"), status |-> Str("completed")])}

\* A node of the answer; `children` is Undefined where the node omits it.
ResponseNode(task, children) == Obj([task |-> task, children |-> children])

RECURSIVE NodesOfSize(_)
RECURSIVE ForestsOfSize(_)
\* The sequences of nodes with m nodes in all.
ForestsOfSize(m) ==
    IF m = 0 THEN {<<>>}
    ELSE UNION {{<<t>> \o f : t \in NodesOfSize(k), f \in ForestsOfSize(m - k)} : k \in 1..m}

\* The nodes with n nodes in all; a leaf omits children, or has null or [].
NodesOfSize(n) ==
    {ResponseNode(t, c) :
        t \in TreeTasks,
        c \in (IF n = 1 THEN {Undefined, Null} ELSE {})
                 \cup {Arr(f) : f \in ForestsOfSize(n - 1)}}

TreeResponses == UNION {NodesOfSize(n) : n \in 1..MaxNodes}

\* { ...x }
Spread(x) == IF x.k = "object" THEN x.v ELSE [f \in {} |-> Undefined]

\* t.children = children
WithChildren(t, children) ==
    Obj([f \in DOMAIN t \cup {"children"} |-> IF f = "children" THEN children ELSE t[f]])

\* Mutant: the children are taken last to first.
ChildNodesReversed(children) ==
    IF Truthy(children)
    THEN [i \in 1..Len(children.v) |-> children.v[Len(children.v) + 1 - i]]
    ELSE <<>>

\* The array getTaskTree maps: node.children ? node.children : []
ChildNodesIf(children) == IF Truthy(children) THEN children.v ELSE <<>>

\* The array getTaskDetail maps: node.children || []
ChildNodesOr(children) == Or(children, Arr(<<>>)).v

RECURSIVE ConvertNodeDetail(_)
\* convertNode of getTaskDetail (lines 425-429)
ConvertNodeDetail(node) ==
    LET kids == ChildNodesOr(node.v.children)
    IN  WithChildren(Spread(node.v.task),
                     Arr([i \in 1..Len(kids) |-> ConvertNodeDetail(kids[i])]))

RECURSIVE ConvertNodeTree(_)
\* convertNode of getTaskTree (lines 441-445)
ConvertNodeTree(node) ==
    LET kids == ChildNodesIf(node.v.children)
    IN  WithChildren(Spread(node.v.task),
                     Arr([i \in 1..Len(kids) |-> ConvertNodeTree(kids[i])]))

\* node.task, for a response that is no node, throws.
NoNodeError ==
    ErrorObject(Str("TypeError: Cannot read properties of undefined (reading 'task')"),
                Undefined, Undefined)

\* getTaskDetail(taskId) (lines 423-424)
GetTaskDetail(taskId) ==
    /\ facade = NoFacade
    /\ facade' = Awaiting("tasks.detail", Str(taskId), Obj([task_id |-> Str(taskId)]),
                          PreIncrement(requestId).id)
    /\ requestId' = PreIncrement(requestId).counter
    /\ UNCHANGED <<callVars, streams, clientVars, detectVars, viewVars, pageVars>>

\* getTaskDetail once rpcRequest has settled (lines 424-430)
GetTaskDetailSettles(answer) ==
    /\ facade.at = "awaiting"
    /\ facade.method = "tasks.detail"
    /\ facade' = [at |-> "done", method |-> facade.method, args |-> facade.args,
                  request |-> facade.request, answer |-> answer,
                  outcome |->
                      LET o == RpcOutcome(answer, "/tasks")
                      IN  IF o.state = "rejected" THEN o
                          ELSE IF o.value.k \in {"undefined", "null"}
                          THEN Rejected(NoNodeError)
                          ELSE Resolved(ConvertNodeDetail(o.value))]
    /\ UNCHANGED <<executeVars, streams, clientVars, detectVars, viewVars, pageVars>>

\* getTaskTree(taskId, rootId) (lines 436-440)
GetTaskTree(taskId, rootId) ==
    /\ facade = NoFacade
    /\ facade' = Awaiting("tasks.tree", <<taskId, rootId>>,
                          Obj([task_id |-> IF Truthy(taskId) THEN taskId ELSE Undefined,
                               root_id |-> IF Truthy(rootId) THEN rootId ELSE Undefined]),
                          PreIncrement(requestId).id)
    /\ requestId' = PreIncrement(requestId).counter
    /\ UNCHANGED <<callVars, streams, clientVars, detectVars, viewVars, pageVars>>

\* getTaskTree once rpcRequest has settled (lines 440-448)
GetTaskTreeSettles(answer) ==
    /\ facade.at = "awaiting"
    /\ facade.method = "tasks.tree"
    /\ facade' = [at |-> "done", method |-> facade.method, args |-> facade.args,
                  request |-> facade.request, answer |-> answer,
                  outcome |->
                      LET o == RpcOutcome(answer, "/tasks")
                      IN  IF o.state = "rejected" THEN o
                          ELSE IF o.value.k \in {"undefined", "null"}
                          THEN Rejected(NoNodeError)
                          ELSE Resolved(ConvertNodeTree(o.value))]
    /\ UNCHANGED <<executeVars, streams, clientVars, detectVars, viewVars, pageVars>>

\* What the server answers tasks.tree and tasks.detail with.
TreeAnswers == AxiosAnswers(TreeResponses \cup {Undefined})

NextFacade ==
    \/ \E taskId \in {"", "t1"} : GetTask(taskId)
    \/ \E a \in AxiosAnswers(TaskResults) : GetTaskSettles(a)
    \/ \E params \in ListParams : ListTasks(params)
    \/ \E a \in AxiosAnswers(ListResults) : ListTasksSettles(a)
    \/ \E taskId \in {"", "t1"} : GetTaskDetail(taskId)
    \/ \E a \in TreeAnswers : GetTaskDetailSettles(a)
    \/ \E taskId \in {Undefined, Str("t1")}, rootId \in {Undefined, Str("r1")} :
          GetTaskTree(taskId, rootId)
    \/ \E a \in TreeAnswers : GetTaskTreeSettles(a)

SpecFacade == Init /\ [][NextFacade]_vars

(***************************************************************************)
(* The task detail view (tasks/[id]/page.tsx:45-98, and the same code in   *)
(* tasks/page.tsx:421-475): the sink it passes to executeTask writes the   *)
(* streamed values into the cached task of the query ['task', taskId].     *)
(***************************************************************************)
MaxEvents == 2

\* A streamed event, with the members the sink reads.
ViewEvent(status, progress, result, error) ==
    [status |-> status, progress |-> progress, result |-> result, error |-> error]

ViewEvents ==
    {ViewEvent(st, pr, re, er) :
        st \in {Undefined, Str("in_progress"), Str("completed")},
        pr \in {Undefined, Num(0)},
        re \in {Undefined, Null},
        er \in {Undefined, Str("boom")}}

\* A cached task.
CachedTask(status, progress, result, error) ==
    Obj([id |-> Str(TaskId), status |-> status, progress |-> progress,
         result |-> result, error |-> error])

\* What the query has cached when the execution starts: nothing, or the
\* task as tasks.get gave it.
CachedTasks ==
    {Undefined} \cup
    {CachedTask(st, pr, re, Undefined) :
        st \in {Str("pending"), Str("completed")},
        pr \in {Num(0), Num(40)},
        re \in {Undefined, Str("old")}}

\* Mutant: a cached terminal status is kept.
MergeStatusKeepsTerminal(eventStatus, oldStatus) ==
    IF oldStatus \in {Str("completed"), Str("failed")} THEN oldStatus
    ELSE Or(eventStatus, oldStatus)

\* event.status || oldData.status
MergeStatus(eventStatus, oldStatus) == Or(eventStatus, oldStatus)

\* event.x !== undefined ? event.x : oldData.x
MergeDefined(eventValue, oldValue) ==
    IF eventValue # Undefined THEN eventValue ELSE oldValue

\* The updater handed to queryClient.setQueryData (lines 53-62).
UpdateCache(oldData, event) ==
    IF ~Truthy(oldData) THEN oldData
    ELSE Obj([id |-> oldData.v.id,
              status |-> MergeStatus(event.status, oldData.v.status),
              progress |-> MergeDefined(event.progress, oldData.v.progress),
              result |-> MergeDefined(event.result, oldData.v.result),
              error |-> Or(event.error, oldData.v.error)])

InitView ==
    /\ ExecuteIdle /\ StreamsIdle /\ ClientIdle /\ FacadeIdle /\ DetectIdle /\ PagesIdle
    /\ cache \in CachedTasks
    /\ handled = <<>>

\* executeTask calls the sink with a streamed event.
OnEvent(event) ==
    /\ Len(handled) < MaxEvents
    /\ cache' = UpdateCache(cache, event)
    /\ handled' = Append(handled, event)
    /\ UNCHANGED <<executeVars, streams, clientVars, facade, detectVars, pageVars>>

NextView == \E e \in ViewEvents : OnEvent(e)

SpecView == InitView /\ [][NextView]_vars

(***************************************************************************)
(* pollTaskStatus (apflow.ts:759-805).  poll.log holds, in order, the      *)
(* status requests started, the calls of onUpdate and the call of the      *)
(* cleanup function.                                                       *)
(***************************************************************************)
MaxPolls == 3

\* What getTask resolves with for a poll: no task, or a task with a status.
PollTasks ==
    {Undefined} \cup
    {Obj([id |-> Str(TaskId), status |-> Str(st)]) :
        st \in {"in_progress", "completed", "failed", "cancelled"}}

\* How the getTask of a poll settles.
PollAnswers == {Resolved(t) : t \in PollTasks} \cup {Rejected(NewError("Network Error"))}

\* The test of line 779.
IsFinished(task) ==
    task.v.status \in {Str("completed"), Str("failed"), Str("cancelled")}

LogRequest(n) == [op |-> "request", n |-> n]

LogUpdate(task) == [op |-> "update", task |-> task]

LogCleanup == [op |-> "cleanup"]

\* poll() up to its await (lines 772-776): nothing when isPolling is false,
\* else the request of this.getTask(taskId) is started.
PollBody(p) ==
    IF ~p.isPolling THEN p
    ELSE [p EXCEPT !.started = @ + 1,
                   !.inflight = @ \cup {p.started + 1},
                   !.log = Append(@, LogRequest(p.started + 1))]

\* isPolling = false; clearInterval(pollInterval) (lines 780-784, 798-802)
StopPolling(p) == [p EXCEPT !.isPolling = FALSE, !.pollInterval = FALSE]

\* pollTaskStatus(taskId, onUpdate) (lines 759-796): without window the
\* cleanup returned does nothing; else poll() is called and the interval set.
PollTaskStatus(hasWindow) ==
    /\ poll = NoPage
    /\ LET fresh == [at |-> "polling", isPolling |-> TRUE, pollInterval |-> FALSE,
                     inflight |-> {}, started |-> 0, log |-> <<>>]
       IN  IF ~hasWindow
           THEN /\ poll' = [fresh EXCEPT !.at = "noop", !.isPolling = FALSE]
                /\ UNCHANGED requestId
           ELSE /\ poll' = [PollBody(fresh) EXCEPT !.pollInterval = TRUE]
                /\ requestId' = PreIncrement(requestId).counter
    /\ UNCHANGED <<callVars, streams, clientVars, facade, detectVars, viewVars, login>>

\* The interval fires and calls poll().
Tick ==
    /\ poll.at = "polling"
    /\ poll.pollInterval
    /\ poll.started < MaxPolls
    /\ poll' = PollBody(poll)
    /\ requestId' = IF poll.isPolling THEN PreIncrement(requestId).counter ELSE requestId
    /\ UNCHANGED <<callVars, streams, clientVars, facade, detectVars, viewVars, login>>

\* The getTask of request n settles and poll() goes on after its await
\* (lines 776-789): onUpdate(task), the test of the status, or the catch.
PollSettles(n, answer) ==
    /\ poll.at = "polling"
    /\ n \in poll.inflight
    /\ LET landed == [poll EXCEPT !.inflight = @ \ {n}]
       IN  poll' =
             IF answer.state = "rejected" THEN landed
             ELSE LET updated == [landed EXCEPT !.log = Append(@, LogUpdate(answer.value))]
                  IN  IF answer.value = Undefined THEN updated
                      ELSE IF IsFinished(answer.value) THEN StopPolling(updated)
                      ELSE updated
    /\ UNCHANGED <<executeVars, streams, clientVars, facade, detectVars, viewVars, login>>

\* The caller calls the cleanup function pollTaskStatus returned.
Cleanup ==
    /\ poll.at \in {"polling", "noop"}
    /\ \A i \in 1..Len(poll.log) : poll.log[i] # LogCleanup
    /\ poll' = IF poll.at = "noop" THEN [poll EXCEPT !.log = Append(@, LogCleanup)]
               ELSE [StopPolling(poll) EXCEPT !.log = Append(@, LogCleanup)]
    /\ UNCHANGED <<executeVars, streams, clientVars, facade, detectVars, viewVars, login>>

NextPoll ==
    \/ \E hasWindow \in BOOLEAN : PollTaskStatus(hasWindow)
    \/ Tick
    \/ \E n \in 1..MaxPolls, a \in PollAnswers : PollSettles(n, a)
    \/ Cleanup

SpecPoll == Init /\ [][NextPoll]_vars

(***************************************************************************)
(* Auto-login (hooks/useAutoLogin, contexts/AutoLoginContext.tsx) and the  *)
(* query of the task list that is enabled by isReady                       *)
(* (tasks/page.tsx:52-59).                                                 *)
(***************************************************************************)
\* process.env.NEXT_PUBLIC_AUTO_LOGIN_PATH
AutoLoginPaths == {Undefined, Str(""), Str(" "), Str("/auto-login")}

\* localStorage.getItem('api_url')
ApiUrls == {Null, Str("http://api:9000")}

\* The URL triggerAutoLogin fetches (lines 54-64 of the hook), with
\* NEXT_PUBLIC_API_URL not set.
AutoLoginUrl(apiUrl, path) ==
    Str(Or(apiUrl, Or(Undefined, Str(BaseURL))).v \o path.v)

\* path.trim() !== ''
TrimmedNotEmpty(text) == \E i \in 1..Len(text) : CharAt(text, i) # " "

\* Boolean(autoLoginPath && autoLoginPath.trim() !== '')
IsEnabled(path) == Truthy(path) /\ TrimmedNotEmpty(path.v)

AutoLoginStatus(enabled, verified, loading, error) ==
    [enabled |-> enabled, verified |-> verified, loading |-> loading, error |-> error]

\* The argument of useState (lines 22-26 of the hook).
InitialStatus == AutoLoginStatus(FALSE, FALSE, FALSE, Undefined)

\* isReady of AutoLoginProvider (line 29)
IsReady(status) == ~status.enabled \/ ~status.loading

\* What the fetch of the auto-login endpoint settles with: a response
\* with a status and a body (JSON or not), or a rejection with a message.
LoginResponse(status, data) == [kind |-> "response", status |-> status, data |-> data]

LoginOutcomes ==
    {LoginResponse(200, d) :
        d \in {Obj([auto_login_enabled |-> Bool(TRUE)]),
               Obj([auto_login_enabled |-> Bool(FALSE)]),
               Obj([auto_login_enabled |-> Undefined]),
               Str("<html>")}}
    \cup {LoginResponse(st, Str("")) : st \in {401, 403, 500}}
    \cup {[kind |-> "rejected", message |-> m] : m \in {Str("Failed to fetch"), Str("")}}

StatusText(status) ==
    CASE status = 200 -> "200" [] status = 401 -> "401" [] status = 403 -> "403"
      [] OTHER -> "500"

\* The status triggerAutoLogin sets once its fetch has settled (lines 65-107
\* of the hook).
StatusAfter(outcome) ==
    IF outcome.kind = "rejected"
    THEN AutoLoginStatus(TRUE, FALSE, FALSE,
                         Or(outcome.message, Str("Failed to trigger auto-login")))
    ELSE IF outcome.status \in 200..299
    THEN IF outcome.data.k # "object"
         THEN AutoLoginStatus(TRUE, FALSE, FALSE, Str("Unexpected token '<'"))
         ELSE IF outcome.data.v.auto_login_enabled = Bool(TRUE)
         THEN AutoLoginStatus(TRUE, TRUE, FALSE, Undefined)
         ELSE AutoLoginStatus(TRUE, FALSE, FALSE, Str("Server does not support auto-login"))
    ELSE IF outcome.status = 401 \/ outcome.status = 403
    THEN AutoLoginStatus(TRUE, TRUE, FALSE, Undefined)
    ELSE AutoLoginStatus(TRUE, FALSE, FALSE,
                         Str("Server returned " \o StatusText(outcome.status)))

\* The observer of a query rendered with `enabled`: it fetches once.
Observe(l, enabled) ==
    IF enabled /\ l.query = "none"
    THEN [l EXCEPT !.query = "inflight", !.queryAt = l.request]
    ELSE l

\* The first render of the provider and of the page under it.
Mount(path, apiUrl) ==
    /\ login = NoPage
    /\ login' = [at |-> "mounted", path |-> path, apiUrl |-> apiUrl, url |-> Undefined,
                 status |-> InitialStatus,
                 isReady |-> IsReady(InitialStatus), stale |-> FALSE,
                 effects |-> "pending", request |-> "none",
                 query |-> "none", queryAt |-> "none"]
    /\ UNCHANGED <<executeVars, streams, clientVars, facade, detectVars, viewVars, poll>>

\* The effects of the first render: the query's observer with the enabled
\* it was rendered with, and the effect of useAutoLogin (lines 28-123 of
\* the hook) up to the await of its fetch.
MountEffects ==
    /\ login.at = "mounted"
    /\ login.effects = "pending"
    /\ LET observed == Observe(login, login.isReady)
       IN  login' =
             IF ~IsEnabled(login.path)
             THEN [observed EXCEPT !.effects = "done", !.stale = TRUE,
                                   !.status = AutoLoginStatus(FALSE, TRUE, FALSE, Undefined)]
             ELSE [observed EXCEPT !.effects = "done", !.stale = TRUE,
                                   !.status = [@ EXCEPT !.enabled = TRUE, !.loading = TRUE],
                                   !.url = AutoLoginUrl(login.apiUrl, login.path),
                                   !.request = "inflight"]
    /\ UNCHANGED <<executeVars, streams, clientVars, facade, detectVars, viewVars, poll>>

\* A render after setStatus, and the query's observer after it.
Rerender ==
    /\ login.at = "mounted"
    /\ login.stale
    /\ login' = Observe([login EXCEPT !.isReady = IsReady(login.status), !.stale = FALSE],
                        IsReady(login.status))
    /\ UNCHANGED <<executeVars, streams, clientVars, facade, detectVars, viewVars, poll>>

\* The fetch of the auto-login endpoint settles.
LoginSettles(outcome) ==
    /\ login.at = "mounted"
    /\ login.request = "inflight"
    /\ login' = [login EXCEPT !.request = "finished", !.stale = TRUE,
                              !.status = StatusAfter(outcome)]
    /\ UNCHANGED <<executeVars, streams, clientVars, facade, detectVars, viewVars, poll>>

\* The gated query settles.
QuerySettles ==
    /\ login.at = "mounted"
    /\ login.query = "inflight"
    /\ login' = [login EXCEPT !.query = "done"]
    /\ UNCHANGED <<executeVars, streams, clientVars, facade, detectVars, viewVars, poll>>

NextLogin ==
    \/ \E path \in AutoLoginPaths, apiUrl \in ApiUrls : Mount(path, apiUrl)
    \/ MountEffects
    \/ Rerender
    \/ \E o \in LoginOutcomes : LoginSettles(o)
    \/ QuerySettles

SpecLogin == Init /\ [][NextLogin]_vars

(***************************************************************************)
(* The task list (tasks/page.tsx:132-185) executes a row's task with       *)
(* executeTask(taskId, true, sink): the call of the executeTask            *)
(* specification with useStreaming, an onEvent and a sink that does not    *)
(* throw.  executingTaskId is written by the mutation only, so its value   *)
(* is a function of what the call did so far.                              *)
(***************************************************************************)
\* The test of the sink (line 145): event.final || event.type === 'stream_end'
SinkClears(event) == Truthy(event.final) \/ event.type = Str("stream_end")

\* executingTaskId: null before the mutation, the task id once mutationFn
\* ran (line 135), null again once the sink has handled an event that
\* clears it (line 146) or onError ran for a rejected call (line 178).
ExecutingTaskId ==
    IF pc = "idle" THEN Null
    ELSE IF ack.state = "rejected" THEN Null
    ELSE IF \E i \in 1..Len(events) : SinkClears(events[i]) THEN Null
    ELSE Str(TaskId)

(***************************************************************************)
(* Vocabulary of the properties.                                           *)
(***************************************************************************)
\* processStream is running or has returned.
StreamHealthy == pc \in {"reading", "stopped", "ended"}

LineProgress == DataPrefix \o TxtProgress

LineDone == DataPrefix \o TxtDone

LineStreamEnd == DataPrefix \o TxtStreamEnd

LineMalformed == DataPrefix \o TxtMalformed

FrameProgress == JSONParse(<<"{", "U+00E9", "}">>).value

FrameDone == JSONParse(<<"{", "f", "}">>).value

\* The characters of a line of bytes.
Chars(bytes) == Decode(<<>>, bytes).text

\* The lines of the body that end with a line feed, as characters.
CompleteLines ==
    LET ls == bodyLines[1]
        n == IF bodyLines[2] THEN Len(ls) ELSE Len(ls) - 1
    IN  [i \in 1..n |-> Chars(ls[i])]

IsDataLine(line) == StartsWith(line, DataPrefix)

\* The payloads of the `data: ` lines among some lines, in order.
DataTexts(ls) ==
    LET ds == SelectSeq(ls, IsDataLine)
    IN  [i \in 1..Len(ds) |-> Slice6(ds[i])]

IsPrefixOf(a, b) == Len(a) <= Len(b) /\ a = SubSeq(b, 1, Len(a))

\* The decoded frames: the values of the payloads JSON.parse accepted.
ParsesOk(text) == JSONParse(text).ok

ParsedFrames ==
    LET ok == SelectSeq(decoded, ParsesOk)
    IN  [i \in 1..Len(ok) |-> JSONParse(ok[i]).value]

\* A `data: ` line whose payload is not JSON.
IsMalformedLine(line) == IsDataLine(line) /\ ~ParsesOk(Slice6(line))

IsNotMalformedLine(line) == ~IsMalformedLine(line)

\* The tasks.execute requests sent.
ExecuteRequests == {i \in DOMAIN sent : sent[i].method = "tasks.execute"}

\* A frame read by the members it has.
HasResultMember(f) == f.jsonrpc = Str("2.0") /\ f.result # Undefined

ForwardedByMember(f) == ~HasResultMember(f) /\ f.type # Undefined

\* The values that count as false in a condition, among those a frame holds.
FalsyValues == {Undefined, Null, Bool(FALSE), Num(0), Str("")}

\* A frame read by the truthiness of its members.
CapturedByTruthiness(f) == f.jsonrpc = Str("2.0") /\ f.result \notin FalsyValues

ForwardedByTruthiness(f) == ~CapturedByTruthiness(f) /\ f.type \notin FalsyValues

\* The streaming request was answered with a status that is not 2xx.
NotOkAnswered == response.kind = "body" /\ ~ResponseOk(response.status)

\* The connection of a streaming call failed, before or after the response.
ConnectionFailed ==
    /\ useStreaming /\ hasOnEvent
    /\ response.kind = "none" \/ pc = "streamError"

\* The error object the answer to a façade call carries, if any.
AnswerError(answer) ==
    IF answer.kind = "response" THEN Member(answer.data, "error")
    ELSE Member(OptGet(answer.error.response, "data"), "error")

\* A non-empty model-name string.
IsModelName(x) == x.k = "string" /\ x.v # ""

\* The `llm` values of a task in the order of the claim: the agents' values
\* in agent order, then the crew-level value.
LlmsInOrder(task) ==
    LET works == OptGet(OptGet(task, "params"), "works")
        agents == IF OptGet(works, "agents").k = "object" THEN OptGet(works, "agents").v
                  ELSE <<>>
    IN  [i \in 1..Len(agents) |-> OptGet(agents[i], "llm")] \o <<OptGet(works, "llm")>>

\* The fixed ordered table of keywords and their providers.
KeywordTable ==
    <<<<"gpt-", "openai">>, <<"gpt", "openai">>, <<"claude", "anthropic">>,
      <<"gemini", "google">>, <<"palm", "google">>, <<"command", "cohere">>,
      <<"mistral", "mistral">>, <<"mixtral", "mistral">>, <<"llama", "groq">>,
      <<"j2-", "ai21">>, <<"togethercomputer", "together">>,
      <<"replicate", "replicate">>, <<"ollama", "ollama">>,
      <<"deepinfra", "deepinfra">>>>

\* The classification of a model name as the claim words it.
ClassifiedAs(name) ==
    LET lower == ToLowerCase(name)
        prefixes == {tag \in ProviderTags : StartsWith(lower, tag \o "/")}
        hits == {i \in DOMAIN KeywordTable : Includes(lower, KeywordTable[i][1])}
    IN  IF prefixes # {} THEN Str(CHOOSE tag \in prefixes : TRUE)
        ELSE IF hits # {}
        THEN Str(KeywordTable[CHOOSE i \in hits : \A j \in hits : i <= j][2])
        ELSE Undefined

(***************************************************************************)
(* C1.  Streaming decode is independent of chunk boundaries: whatever the  *)
(* chunks in which the bytes read so far arrived, onEvent has received the *)
(* events, and JSON.parse the payloads, that the same bytes give when they *)
(* arrive as one chunk; the payloads parsed are the `data: ` lines of the  *)
(* body in stream order, each once, all of them when the loop reaches the  *)
(* natural end of a body.                                                  *)
(***************************************************************************)
C1_ChunkIndependent ==
    StreamHealthy =>
        LET one == WholeBody(SubSeq(body, 1, pos), sinkThrows)
        IN  /\ events = one.loop.events
            /\ decoded = one.loop.decoded
            /\ initialResponse = one.loop.initialResponse
            /\ IsPrefixOf(decoded, DataTexts(CompleteLines))
            /\ pc = "ended" => decoded = DataTexts(CompleteLines)

\* A chunk ended inside the payload of a `data: ` line, and inside a
\* two-byte character, after an event was delivered.
C1_Witness ==
    /\ pc = "reading"
    /\ events = <<FrameProgress>>
    /\ buffer = DataPrefix \o <<"{">>
    /\ pending = <<"c3">>

(***************************************************************************)
(* C2.  Once onEvent has been called with a terminal event (final true, or *)
(* type stream_end), onEvent is not called again: a terminal event is the  *)
(* last event delivered.                                                   *)
(***************************************************************************)
C2_NothingAfterTerminal ==
    \A i \in 1..Len(events) : IsTerminal(events[i]) => i = Len(events)

(***************************************************************************)
(* C3, as stated.  In streaming mode the promise resolves only after the   *)
(* terminal event of the stream was delivered: when it is resolved for a   *)
(* body that holds a terminal event, that event is among the events        *)
(* delivered before.                                                       *)
(***************************************************************************)
C3_AckAfterTerminal ==
    (/\ response.kind = "event-stream"
     /\ ack.state = "resolved"
     /\ \E i \in 1..Len(bodyLines[1]) : bodyLines[1][i] \in {LineDone, LineStreamEnd})
        => \E i \in 1..eventsAtAck : IsTerminal(events[i])

(***************************************************************************)
(* C3, amended.  In streaming mode the promise resolves before the         *)
(* terminal event is delivered: every terminal event handed to onEvent     *)
(* comes after the promise resolved, as does every event before it.        *)
(***************************************************************************)
C3_AckBeforeTerminal ==
    \A i \in 1..Len(events) :
        IsTerminal(events[i]) => (ack.state = "resolved" /\ eventsAtAck = 0)

\* A progress event and a final event were delivered, both after the
\* promise resolved.
C3_Witness ==
    /\ pc = "stopped"
    /\ events = <<FrameProgress, FrameDone>>
    /\ ack.state = "resolved"
    /\ eventsAtAck = 0

(***************************************************************************)
(* C4.  With an SSE response executeTask returns as soon as the stream is  *)
(* open, before any event: whenever processStream runs or has run, the     *)
(* promise is resolved and no event preceded that; and every call of       *)
(* onEvent happens with the promise already resolved and leaves it as is.  *)
(***************************************************************************)
C4_AckOnEstablish ==
    [][/\ pc' \in {"reading", "stopped", "ended", "streamError"}
          => (ack'.state = "resolved" /\ eventsAtAck' = 0)
       /\ events' # events => (ack.state = "resolved" /\ ack' = ack)]_vars

\* An event was delivered after the promise resolved, and the stream has
\* more to give.
C4_Witness ==
    /\ pc = "reading"
    /\ ack.state = "resolved"
    /\ Len(events) > eventsAtAck
    /\ pos < Len(body)

(***************************************************************************)
(* C5.  When the stream held a JSON-RPC initial acknowledgement with       *)
(* result R, the call resolves with R; it resolves with the placeholder    *)
(* only when no acknowledgement was captured.                              *)
(***************************************************************************)
C5_ResolvesWithCaptured ==
    (pc \in {"stopped", "ended"} /\ initialResponse # Null)
        => ack = Resolved(initialResponse)

(***************************************************************************)
(* C6, as stated.  Of the decoded frames, those with jsonrpc 2.0 and a     *)
(* result member are captured and not passed to onEvent, every other one   *)
(* with a type member is passed as decoded, and the rest causes no call.   *)
(***************************************************************************)
C6_ByMember ==
    StreamHealthy => events = SelectSeq(ParsedFrames, ForwardedByMember)

(***************************************************************************)
(* C6, amended.  Of the decoded frames, those with jsonrpc 2.0 and a       *)
(* truthy result (not null, false, 0 or '') are captured, the last one     *)
(* being the initial acknowledgement, and are not passed to onEvent; every *)
(* other one with a truthy type (a non-empty string) is passed as decoded; *)
(* the rest causes no call.                                                *)
(***************************************************************************)
C6_ByTruthiness ==
    StreamHealthy =>
        LET captured == SelectSeq(ParsedFrames, CapturedByTruthiness)
        IN  /\ events = SelectSeq(ParsedFrames, ForwardedByTruthiness)
            /\ initialResponse = IF captured = <<>> THEN Null
                                 ELSE captured[Len(captured)].result

\* An acknowledgement, an event and a frame that is neither were decoded:
\* one was captured, one delivered, one dropped.
C6_Witness ==
    /\ pc = "ended"
    /\ decoded = <<TxtAck, <<"{", "x", "}">>, <<"{", "U+00E9", "}">>>>
    /\ events = <<FrameProgress>>
    /\ initialResponse = ServerResult

(***************************************************************************)
(* C7.  A `data: ` line whose payload is not JSON is skipped: the events   *)
(* delivered when processStream returns are those of the body without its  *)
(* malformed lines, every such line was logged, processStream did not      *)
(* reject and the call did not fail.                                       *)
(***************************************************************************)
C7_MalformedSkipped ==
    pc \in {"stopped", "ended"} =>
        /\ events = ForLines(SelectSeq(CompleteLines, IsNotMalformedLine),
                             FreshLoop, sinkThrows).events
        /\ logged >= Len(decoded) - Len(ParsedFrames)
        /\ ack.state = "resolved"

\* A malformed line between two events: both events were delivered.
C7_Witness ==
    /\ pc = "stopped"
    /\ bodyLines[1] = <<LineProgress, LineMalformed, LineDone>>
    /\ events = <<FrameProgress, FrameDone>>
    /\ logged = 1

C9_FailureRejects == ConnectionFailed => ack.state = "rejected"

(***************************************************************************)
(* C9, amended.  A failure of the request before any response rejects the  *)
(* promise with that failure; a failure of the byte stream while it is     *)
(* read does not reject the promise, which has resolved by then, and is    *)
(* reported by one more onEvent call, with an event of type error that     *)
(* carries the failure's message, 'Stream processing error' if it has      *)
(* none.                                                                   *)
(***************************************************************************)
C9_FailurePropagated ==
    /\ (useStreaming /\ hasOnEvent /\ response.kind = "none")
          => /\ ack.state = "rejected"
             /\ ack.error.message = response.message
             /\ events = <<>>
    /\ pc = "streamError"
          => /\ ack.state = "resolved"
             /\ Len(events) >= 1
             /\ events[Len(events)].type = Str("error")
             /\ events[Len(events)].error =
                   IF response.failure = Str("") THEN Str("Stream processing error")
                   ELSE response.failure

\* The stream failed after an event was delivered.
C9_Witness ==
    /\ pc = "streamError"
    /\ Len(events) = 2
    /\ events[1] = FrameProgress
    /\ events[2].error = Str("Failed to fetch")
    /\ ack.state = "resolved"

(***************************************************************************)
(* C10.  Called with streaming disabled or without an event sink,          *)
(* executeTask takes the non-streaming path: one tasks.execute request,    *)
(* sent through the shared HTTP client; the call resolves with the result  *)
(* member of the JSON-RPC response, or fails when the response has an      *)
(* error member; onEvent is never called and no stream is opened.          *)
(***************************************************************************)
C10_NonStreaming ==
    (pc \notin {"idle", "getTask"} /\ ~(useStreaming /\ hasOnEvent)) =>
        /\ pc \in {"posting", "returned", "threw"}
        /\ Cardinality(ExecuteRequests) = 1
        /\ \A i \in ExecuteRequests : sent[i].via = "axios"
        /\ events = <<>>
        /\ (response.kind = "body" /\ response.body.json) =>
              IF response.body.error = Undefined
              THEN ack = Resolved(response.body.result)
              ELSE ack.state = "rejected"

\* Streaming was asked for, without a sink: the result of the response.
C10_Witness ==
    /\ pc = "returned"
    /\ useStreaming
    /\ ~hasOnEvent
    /\ Cardinality(ExecuteRequests) = 1
    /\ ack = Resolved(ServerResult)

(***************************************************************************)
(* C11.  Two streams open together on one client do not affect each other: *)
(* whatever the order in which their chunks arrived, the sink of each call *)
(* has received the events, and the call has captured the acknowledgement, *)
(* that the bytes it has read give when the call runs alone; a call that   *)
(* stopped at its terminal event leaves the other one reading.             *)
(***************************************************************************)
C11_StreamsIndependent ==
    \A c \in StreamCalls :
        LET alone == WholeBody(SubSeq(streams[c].body, 1, streams[c].pos), {})
        IN  /\ streams[c].events = alone.loop.events
            /\ streams[c].initialResponse = alone.loop.initialResponse
            /\ streams[c].buffer = alone.buffer
            /\ (streams[c].pc = "stopped") = alone.loop.returned

\* The first call stopped at its terminal event with an acknowledgement
\* captured; the second one, without acknowledgement, has delivered an
\* event and holds a line fragment.
C11_Witness ==
    /\ streams[1].pc = "stopped"
    /\ streams[1].initialResponse = ServerResult
    /\ streams[2].pc = "reading"
    /\ streams[2].events = <<FrameProgress>>
    /\ streams[2].initialResponse = Null
    /\ streams[2].buffer = <<"d", "a", "t">>

(***************************************************************************)
(* C12.  The correlation ids of the envelopes one client builds, by façade *)
(* calls and executeTask calls that overlap in any way, are integers that  *)
(* strictly increase in the order in which the envelopes are built, so no  *)
(* two are equal; the first one is 1.                                      *)
(***************************************************************************)
C12_IdsIncrease ==
    /\ \A i \in DOMAIN wire : wire[i].id \in Int
    /\ \A i \in DOMAIN wire : \A j \in DOMAIN wire : i < j => wire[i].id < wire[j].id
    /\ wire # <<>> => wire[1].id = 1
    /\ \A i \in DOMAIN wire : wire[i].id <= requestId

\* An executeTask call built its tasks.execute envelope after a façade call
\* that started during its await of getTask and is still in flight.
C12_Witness ==
    /\ Len(wire) = 3
    /\ wire[1].call = 1 /\ wire[1].method = "tasks.get"
    /\ wire[2].call = 2 /\ calls[2] = [kind |-> "facade", at |-> "awaiting"]
    /\ wire[3].call = 1 /\ wire[3].method = "tasks.execute"
    /\ wire[3].id = 3

(***************************************************************************)
(* C13.  When the response to a façade call carries an error object with   *)
(* code c, summary m and detail d, the call fails with an error whose code *)
(* is c and whose message is d when d is not empty, m otherwise.           *)
(***************************************************************************)
C13_DetailPreferred ==
    (facade.at = "done" /\ "answer" \in DOMAIN facade /\ Truthy(AnswerError(facade.answer)))
        => LET e == AnswerError(facade.answer).v
           IN  /\ facade.outcome.state = "rejected"
               /\ facade.outcome.error.code = e.code
               /\ facade.outcome.error.message = IF Truthy(e.data) THEN e.data ELSE e.message

(***************************************************************************)
(* C14.  Every request that leaves, by this.client or by fetch, carries    *)
(* `Authorization: Bearer <token>` with the token stored when it was sent  *)
(* if one was stored, and no Authorization header if none was; and a call  *)
(* made without a stored token is sent all the same.                       *)
(***************************************************************************)
C14_BearerWhenStored ==
    /\ \A i \in DOMAIN wire :
          wire[i].headers["Authorization"] =
             IF wire[i].store["auth_token"] = Null THEN Undefined
             ELSE Str("Bearer " \o wire[i].store["auth_token"].v)
    /\ \A c \in ClientCalls :
          /\ calls[c] # NoCall => \E i \in DOMAIN wire : wire[i].call = c
          /\ calls[c].at = "sent" =>
                \E i \in DOMAIN wire : wire[i].call = c /\ wire[i].method = "tasks.execute"

\* The token was saved while executeTask awaited getTask: tasks.get left
\* without the header, the streaming tasks.execute request with it; and a
\* non-streaming one left without, the token having been removed.
C14_Witness ==
    /\ Len(wire) = 4
    /\ wire[1].headers["Authorization"] = Undefined
    /\ wire[2].via = "fetch"
    /\ wire[2].headers["Authorization"] = Str("Bearer T2")
    /\ wire[4].method = "tasks.execute"
    /\ wire[4].via = "axios"
    /\ wire[4].headers["Authorization"] = Undefined

(***************************************************************************)
(* C15.  The X-LLM-API-KEY header of a tasks.execute request is resolved   *)
(* from the store as it is when the request is built: the key stored for   *)
(* the detected provider if there is one, else the generic key, else no    *)
(* header; the value is `<provider>:<key>` when a provider was detected    *)
(* and `<key>` when none was.                                              *)
(***************************************************************************)
C15_LlmKeyResolved ==
    \A i \in DOMAIN wire :
        wire[i].method = "tasks.execute" =>
            LET provider == wire[i].provider
                st == wire[i].store
                specific == IF provider = Undefined THEN Null
                            ELSE st["llm_api_key_" \o provider.v]
                key == IF specific # Null THEN specific ELSE st["llm_api_key"]
            IN  wire[i].headers["X-LLM-API-KEY"] =
                   IF key = Null THEN Undefined
                   ELSE IF provider = Undefined THEN key
                   ELSE Str(provider.v \o ":" \o key.v)

\* With both keys stored, a streaming request for an openai task left with
\* the openai key, and a non-streaming one for an anthropic task, for which
\* no key is stored, with the generic key.
C15_Witness ==
    /\ Len(wire) = 4
    /\ wire[2].via = "fetch"
    /\ wire[2].provider = Str("openai")
    /\ wire[2].store["llm_api_key"] = Str("K")
    /\ wire[2].headers["X-LLM-API-KEY"] = Str("openai:KO")
    /\ wire[4].via = "axios"
    /\ wire[4].provider = Str("anthropic")
    /\ wire[4].headers["X-LLM-API-KEY"] = Str("anthropic:K")

(***************************************************************************)
(* C16.  Provider detection classifies the first non-empty model-name      *)
(* string among the agents' `llm` values in agent order followed by the    *)
(* crew-level `llm` value: values that are empty or not strings are passed *)
(* over; without such a string the result is undefined.                    *)
(***************************************************************************)
C16_FirstNonEmptyName ==
    (detectInput.k = "task" /\ detectOutput # NotDetected) =>
        LET names == SelectSeq(LlmsInOrder(detectInput.v), IsModelName)
        IN  detectOutput.v = IF names = <<>> THEN Undefined
                             ELSE DetectProviderFromModel(names[1].v)

(***************************************************************************)
(* C17.  The classification of a model name ignores letter case; it is the *)
(* name's `provider/` prefix when that prefix is in the allow-list, also   *)
(* when the name holds a keyword of another provider; otherwise the        *)
(* provider of the first entry of the keyword table whose keyword occurs   *)
(* in the name; otherwise undefined.  `openai/gpt-4` gives openai,         *)
(* `claude-3-opus` anthropic, and a task without configuration undefined.  *)
(***************************************************************************)
C17_Classification ==
    /\ (detectInput.k = "model" /\ detectOutput # NotDetected) =>
          /\ detectOutput.v = ClassifiedAs(detectInput.v)
          /\ detectInput.v = "openai/gpt-4" => detectOutput.v = Str("openai")
          /\ detectInput.v = "claude-3-opus" => detectOutput.v = Str("anthropic")
          /\ detectInput.v = "Anthropic/GPT4" => detectOutput.v = Str("anthropic")
          /\ detectInput.v = "foo/Mixtral-8x7b" => detectOutput.v = Str("mistral")
          /\ detectInput.v = "foo/my-model" => detectOutput.v = Undefined
    /\ (detectInput = [k |-> "task", v |-> Obj([params |-> Undefined])]
           /\ detectOutput # NotDetected)
          => detectOutput.v = Undefined

\* A name written with capitals, with an allow-listed prefix and the
\* keyword of another provider, was classified by its prefix.
C17_Witness ==
    /\ detectInput = [k |-> "model", v |-> "Anthropic/GPT4"]
    /\ detectOutput = Returned(Str("anthropic"))

C20_ListDefaults ==
    (facade.at # "idle" /\ facade.method = "tasks.list" /\ "request" \in DOMAIN facade) =>
        LET listed == facade.request.params.v
            Supplied(member) ==
                IF facade.args = Undefined THEN Undefined ELSE facade.args.v[member]
        IN  /\ listed.root_only # Undefined /\ listed.limit # Undefined /\ listed.offset # Undefined
            /\ listed.root_only =
                  IF Supplied("root_only") = Undefined THEN Bool(TRUE) ELSE Supplied("root_only")
            /\ listed.limit =
                  IF Supplied("limit") = Undefined THEN Num(100) ELSE Supplied("limit")
            /\ listed.offset =
                  IF Supplied("offset") = Undefined THEN Num(0) ELSE Supplied("offset")

\* A request sent for listTasks({root_only: false, limit: 0}): false and 0
\* are sent, and the offset left unset is sent as 0.
C20_Witness ==
    /\ facade.at = "awaiting"
    /\ facade.method = "tasks.list"
    /\ facade.args =
          Obj([userId |-> Undefined, status |-> Undefined, root_only |-> Bool(FALSE),
               limit |-> Num(0), offset |-> Undefined])
    /\ facade.request.params.v.root_only = Bool(FALSE)
    /\ facade.request.params.v.limit = Num(0)
    /\ facade.request.params.v.offset = Num(0)

RECURSIVE Mirrors(_, _)
\* The tree t has the shape of the response node: the members of the
\* node's task, a children array, and as many children as the node has, in
\* the same order, each with the shape of its node.
Mirrors(node, t) ==
    LET task == node.v.task.v
        given == node.v.children
        kids == IF given.k = "array" THEN given.v ELSE <<>>
    IN  /\ t.k = "object"
        /\ DOMAIN t.v = DOMAIN task \cup {"children"}
        /\ \A f \in DOMAIN task : f # "children" => t.v[f] = task[f]
        /\ t.v.children.k = "array"
        /\ Len(t.v.children.v) = Len(kids)
        /\ \A i \in 1..Len(kids) : Mirrors(kids[i], t.v.children.v[i])

(***************************************************************************)
(* C19.  getTaskTree and getTaskDetail answer a nested {task, children}    *)
(* response with a tree of the same shape and the same order of children,  *)
(* in which every node has the members of its task and a children array,   *)
(* empty for a leaf, also for one whose node omits children.               *)
(***************************************************************************)
C19_TreeConverted ==
    (/\ facade.at = "done"
     /\ facade.method \in {"tasks.tree", "tasks.detail"}
     /\ facade.answer.kind = "response"
     /\ Member(facade.answer.data, "error") = Undefined
     /\ Member(facade.answer.data, "result") \in TreeResponses) =>
        /\ facade.outcome.state = "resolved"
        /\ Mirrors(Member(facade.answer.data, "result"), facade.outcome.value)

\* getTaskTree has answered a response of three levels, with a leaf that
\* omits children before a node whose only child has children null.
C19_Witness ==
    LET a == Obj([id |-> Str("a")])
        b == Obj([id |-> Str("b"), status |-> Str("completed")])
    IN  /\ facade.at = "done"
        /\ facade.method = "tasks.tree"
        /\ facade.answer =
              AxiosResponse(200, RpcData(
                  ResponseNode(a, Arr(<<ResponseNode(b, Undefined),
                                        ResponseNode(a, Arr(<<ResponseNode(b, Null)>>))>>)),
                  Undefined))
        /\ facade.outcome =
              Resolved(Obj([id |-> Str("a"), children |-> Arr(<<
                  Obj([id |-> Str("b"), status |-> Str("completed"), children |-> Arr(<<>>)]),
                  Obj([id |-> Str("a"), children |-> Arr(<<
                      Obj([id |-> Str("b"), status |-> Str("completed"),
                           children |-> Arr(<<>>)])>>)])>>)]))

(***************************************************************************)
(* C21.  The cleanup function of pollTaskStatus stops the polling: after   *)
(* it was called no status request is started and onUpdate is not called,  *)
(* also when a request was in flight at that moment.                       *)
(***************************************************************************)
C21_CleanupStops ==
    poll.at = "polling" =>
        \A i, j \in 1..Len(poll.log) :
            (i < j /\ poll.log[i] = LogCleanup) =>
                poll.log[j].op \notin {"request", "update"}

(***************************************************************************)
(* C22.  pollTaskStatus stops once the task is finished: after onUpdate    *)
(* was called with a task that is completed, failed or cancelled, no       *)
(* status request is started and onUpdate is not called again.             *)
(***************************************************************************)
C22_FinishedStops ==
    poll.at = "polling" =>
        \A i, j \in 1..Len(poll.log) :
            (/\ i < j
             /\ poll.log[i].op = "update"
             /\ poll.log[i].task # Undefined
             /\ IsFinished(poll.log[i].task)) =>
                poll.log[j].op \notin {"request", "update"}

(***************************************************************************)
(* C23.  With an auto-login path configured, isReady is false from the     *)
(* first render until the auto-login request has finished, and the query   *)
(* enabled by isReady is not issued before the request has finished.       *)
(***************************************************************************)
C23_ReadyAfterLogin ==
    (login.at = "mounted" /\ IsEnabled(login.path)) =>
        /\ login.isReady => login.request = "finished"
        /\ login.query # "none" => login.queryAt = "finished"

(***************************************************************************)
(* C24.  The failure of a façade call is classified by the transport       *)
(* outcome only: an error object that came in a successful HTTP response   *)
(* is thrown as an RPC error with the server's code and error object,      *)
(* never as a network error or a request-timeout error, whatever its       *)
(* message and detail say.                                                 *)
(***************************************************************************)
C24_ClassifiedByTransport ==
    (/\ facade.at = "done"
     /\ "answer" \in DOMAIN facade
     /\ facade.answer.kind = "response"
     /\ Truthy(Member(facade.answer.data, "error"))) =>
        /\ facade.outcome.state = "rejected"
        /\ facade.outcome.error.made = "rpc"
        /\ facade.outcome.error.code = Member(facade.answer.data, "error").v.code
        /\ facade.outcome.error.rpcError = Member(facade.answer.data, "error")

(***************************************************************************)
(* C25.  An exception of onEvent does not change how the stream is         *)
(* processed: when processStream has returned, the call has not failed,    *)
(* the events delivered are those of a run over the same body with a sink  *)
(* that does not throw, and processing stopped at a terminal event exactly *)
(* when that run does.                                                     *)
(***************************************************************************)
C25_SinkThrowHarmless ==
    pc \in {"stopped", "ended"} =>
        LET quiet == WholeBody(body, {}).loop
        IN  /\ ack.state = "resolved"
            /\ events = quiet.events
            /\ (pc = "stopped") = quiet.returned

(***************************************************************************)
(* C26.  At the natural end of the input the rest of the buffer, a last    *)
(* line without line feed, is discarded: it was not parsed and onEvent was *)
(* not called for it, also when it is a whole `data: ` line with a JSON    *)
(* payload or a terminal event.                                            *)
(***************************************************************************)
C26_LeftoverDiscarded ==
    (pc = "ended" /\ ~bodyLines[2]) =>
        /\ decoded = DataTexts(CompleteLines)
        /\ events = ForLines(CompleteLines, FreshLoop, sinkThrows).events
        /\ Len(decoded) < Len(DataTexts([i \in 1..Len(bodyLines[1]) |-> Chars(bodyLines[1][i])]))
              => buffer = Chars(bodyLines[1][Len(bodyLines[1])])

\* The body ended with a terminal event that had no line feed: only the
\* event before it was delivered, and the terminal line is what the buffer
\* holds.
C26_Witness ==
    /\ pc = "ended"
    /\ bodyLines = <<<<LineProgress, LineDone>>, FALSE>>
    /\ events = <<FrameProgress>>
    /\ decoded = <<Chars(TxtProgress)>>
    /\ buffer = LineDone

\* The number of `:` in a text; the keys stored are written without one.
Colons(text) == Cardinality({i \in 1..Len(text) : CharAt(text, i) = ":"})

(***************************************************************************)
(* C27.  The X-LLM-API-KEY value executeTask sends holds at most one       *)
(* provider prefix, and that prefix is the detected provider, for every    *)
(* generic key the LLM-key settings page can store: the key alone, or      *)
(* `provider:key`.                                                         *)
(***************************************************************************)
C27_OneProviderPrefix ==
    \A i \in DOMAIN wire :
        (wire[i].method = "tasks.execute" /\ wire[i].headers["X-LLM-API-KEY"] # Undefined) =>
            LET value == wire[i].headers["X-LLM-API-KEY"].v
                provider == wire[i].provider
            IN  /\ Colons(value) <= 1
                /\ Colons(value) = 1 =>
                      /\ provider # Undefined
                      /\ Len(value) > Len(provider.v)
                      /\ SubSeq(value, 1, Len(provider.v) + 1) = provider.v \o ":"

(***************************************************************************)
(* C28.  For the same contents of the credential store and the same        *)
(* detected provider, the tasks.execute request leaves with the same       *)
(* Authorization and X-LLM-API-KEY headers by fetch (streaming) and by the *)
(* shared client and its interceptor (not streaming).                      *)
(***************************************************************************)
C28_SameHeadersBothPaths ==
    \A i, j \in DOMAIN wire :
        (/\ wire[i].method = "tasks.execute" /\ wire[j].method = "tasks.execute"
         /\ wire[i].via = "fetch" /\ wire[j].via = "axios"
         /\ wire[i].store = wire[j].store
         /\ wire[i].provider = wire[j].provider) =>
            /\ wire[i].headers["Authorization"] = wire[j].headers["Authorization"]
            /\ wire[i].headers["X-LLM-API-KEY"] = wire[j].headers["X-LLM-API-KEY"]

\* A streaming and a non-streaming execution of an openai task left with
\* the same store, token, openai key and generic key stored: both carry the
\* token and the openai key with its provider.
C28_Witness ==
    /\ Len(wire) = 4
    /\ wire[2].method = "tasks.execute" /\ wire[2].via = "fetch"
    /\ wire[4].method = "tasks.execute" /\ wire[4].via = "axios"
    /\ wire[2].store = wire[4].store
    /\ wire[2].store["auth_token"] = Str("T1")
    /\ wire[2].store["llm_api_key"] = Str("K")
    /\ wire[2].provider = Str("openai") /\ wire[4].provider = Str("openai")
    /\ wire[2].headers["Authorization"] = Str("Bearer T1")
    /\ wire[4].headers["Authorization"] = Str("Bearer T1")
    /\ wire[2].headers["X-LLM-API-KEY"] = Str("openai:KO")
    /\ wire[4].headers["X-LLM-API-KEY"] = Str("openai:KO")

\* The call of the task list, once the execution is over: the call has
\* settled and the stream, if one was opened, is no longer read.
ListExecutionOver ==
    /\ useStreaming /\ hasOnEvent /\ sinkThrows = {}
    /\ ack.state # "pending"
    /\ pc \in {"stopped", "ended", "streamError", "returned", "threw"}

(***************************************************************************)
(* C29.  In the task list, once an execution started from a row is over,   *)
(* by a terminal event, by the natural end of the stream, by a stream      *)
(* error event or by the rejection of the call, executingTaskId is null    *)
(* again.  (Nothing happens after the execution is over, so `eventually    *)
(* null` is `null when it is over`.)                                       *)
(***************************************************************************)
C29_ExecutingCleared == ListExecutionOver => ExecutingTaskId = Null

====
